---- MODULE Spec2Model ----
(***************************************************************************)
(* Multi-process logging aggregation: the manager classes Logger,          *)
(* UnifiedLogger, SingleProcessLogger and MultiProcessLogger, the queue    *)
(* they share, the QueueListener thread of the owner, the process-wide     *)
(* registry of named loggers (facades) and the sink files.                 *)
(***************************************************************************)
EXTENDS Integers, Sequences, FiniteSets, TLC

\* ---------------------------------------------------------------- bounds
MaxMgrs == 2      \* manager instances constructed in one run
MaxEmit == 2      \* log calls made in one run
MaxWrites == 5    \* lines written through a rotating_file handler in one run
MaxCalls == 3     \* LoggerSingleton(...) calls made in one run

\* ------------------------------------------------------- program constants
NOTSET == 0
DEBUG == 10
INFO == 20
WARNING == 30
ERROR == 40
CRITICAL == 50
UnboundedSize == -1

None == 0         \* an absent queue / listener reference

Procs == {1, 2}                 \* operating-system processes
Names == {<<"a">>}               \* the logger names of the callers, split at the dots
LoggerNames == {<<"a">>, <<"b">>, <<"a", "b">>}  \* every name logging.getLogger is called with
EmitLevels == {DEBUG, WARNING}  \* severities of the log calls
ArgLevels == {INFO}             \* the level argument given to get_logger
QueueSizes == {UnboundedSize, 1}  \* the queue_size argument of an owner

SINGLE_PROCESS == "single_process"
MULTI_PROCESS_MAIN == "multi_process_main"
MULTI_PROCESS_WORKER == "multi_process_worker"

Classes == {"Logger", "UnifiedLogger", "SingleProcessLogger", "MultiProcessLogger"}

\* the module (source file) a manager class is defined in
ModuleOf(cls) ==
    CASE cls = "Logger" -> "logger"
      [] cls = "UnifiedLogger" -> "logger_unified"
      [] OTHER -> "logger_separate"

\* The handlers section of the configuration file: a file handler at DEBUG,
\* an entry of an unrecognized type, and a file handler at WARNING.
HandlersConfig ==
    << [type |-> "file",   level |-> DEBUG,   sink |-> 1],
       [type |-> "syslog", level |-> INFO,    sink |-> 0],
       [type |-> "file",   level |-> WARNING, sink |-> 2] >>

SinkIds == {1, 2}

\* dict.get(key, default)
DictGet(d, key, default) == IF key \in DOMAIN d THEN d[key] ELSE default

\* A configuration file: does the path exist, the suffix of the path, and
\* the root section of its content (a dict; empty when there is none).
ConfigFile(exists, suffix, root) == [exists |-> exists, suffix |-> suffix, root |-> root]

\* the files of the runs: two that load (root.level unset / DEBUG, propagate
\* false) and three that do not
ConfigFiles ==
    { ConfigFile(TRUE, ".yaml", [propagate |-> FALSE]),
      ConfigFile(TRUE, ".JSON", [level |-> DEBUG, propagate |-> FALSE]),
      ConfigFile(FALSE, ".yaml", [propagate |-> FALSE]),
      ConfigFile(FALSE, ".txt", [propagate |-> FALSE]),
      ConfigFile(TRUE, ".txt", [propagate |-> FALSE]) }

\* str.lower() on the suffixes in use
Lower(suffix) ==
    CASE suffix = ".JSON" -> ".json"
      [] suffix = ".YML" -> ".yml"
      [] OTHER -> suffix

\* _load_config: the exception it raises, "ok" when the file is loaded
LoadConfigSuffixFirst(file) ==
    IF Lower(file.suffix) \notin {".yaml", ".yml", ".json"} THEN "ValueError"
    ELSE IF ~file.exists THEN "FileNotFoundError"
    ELSE "ok"

LoadConfig(file) ==
    IF ~file.exists THEN "FileNotFoundError"
    ELSE IF Lower(file.suffix) \in {".yaml", ".yml"} THEN "ok"
    ELSE IF Lower(file.suffix) = ".json" THEN "ok"
    ELSE "ValueError"

\* the ways to construct a manager, and the statements of each in order
Ctors == {"Logger", "UnifiedLogger", "SingleProcessLogger", "MultiProcessLogger", "from_queue"}

InitOrderQueueFirst(ctor) ==
    CASE ctor = "UnifiedLogger" ->
            <<"_determine_mode", "_load_config", "_setup_multiprocessing", "_setup_handlers">>
      [] ctor \in {"SingleProcessLogger", "from_queue"} -> <<"_load_config", "_setup_handlers">>
      [] OTHER -> <<"_load_config", "_setup_multiprocessing", "_setup_handlers">>

InitOrder(ctor) ==
    CASE ctor = "UnifiedLogger" ->
            <<"_determine_mode", "_load_config", "_setup_handlers", "_setup_multiprocessing">>
      [] ctor \in {"SingleProcessLogger", "from_queue"} -> <<"_load_config", "_setup_handlers">>
      [] OTHER -> <<"_load_config", "_setup_handlers", "_setup_multiprocessing">>

\* the statements of a sequence that ran before the given one
StepsBefore(order, step) ==
    LET i == CHOOSE j \in 1..Len(order) : order[j] = step
    IN  {order[j] : j \in 1..(i - 1)}

\* ------------------------------------------------- rotating_file handler
DefaultMaxBytes == 10485760
DefaultBackupCount == 5

Absent == -1      \* the size of a file that does not exist

\* index 0 is the base file, index i the backup name.i
FileIndexes == 0..(DefaultBackupCount + 1)

\* the rotating_file entries of the runs: max_bytes and backup_count given,
\* or left to the defaults
RotatingConfigs ==
    { [type |-> "rotating_file", max_bytes |-> 100, backup_count |-> 2],
      [type |-> "rotating_file", max_bytes |-> 100, backup_count |-> 1],
      [type |-> "rotating_file", max_bytes |-> 50, backup_count |-> 2],
      [type |-> "rotating_file"] }

\* the lengths in bytes of the formatted lines written
LineLengths == {30, 50, 100, 301}

\* RotatingFileHandler(filename, maxBytes=max_bytes, backupCount=backup_count):
\* the base file is opened (created) at once.  written, longest and writes
\* are bookkeeping: the bytes written so far, the longest line, the lines.
CreateRotatingHandler(hc) ==
    [maxBytes |-> DictGet(hc, "max_bytes", DefaultMaxBytes),
     backupCount |-> DictGet(hc, "backup_count", DefaultBackupCount),
     files |-> [i \in FileIndexes |-> IF i = 0 THEN 0 ELSE Absent],
     written |-> 0, longest |-> 0, writes |-> 0]

\* no rotating_file handler
NoRotation ==
    [maxBytes |-> 0, backupCount |-> 0, files |-> [i \in FileIndexes |-> Absent],
     written |-> 0, longest |-> 0, writes |-> 0]

\* RotatingFileHandler.shouldRollover: would the line take the base file to
\* maxBytes or beyond?
ShouldRollover(h, len) == h.maxBytes > 0 /\ h.files[0] + len >= h.maxBytes

\* the renaming loop of doRollover, for i in range(first, 0, -1): name.i
\* becomes name.(i+1), replacing it
RECURSIVE ShiftBackups(_, _)
ShiftBackups(files, i) ==
    IF i <= 0 THEN files
    ELSE ShiftBackups(IF files[i] # Absent
                      THEN [files EXCEPT ![i + 1] = files[i], ![i] = Absent]
                      ELSE files,
                      i - 1)

\* RotatingFileHandler.doRollover: close the base file, shift the backups
\* from name.(backupCount-1) down, rename the base file to name.1 and open
\* a new base file
DoRolloverFromLast(h) ==
    IF h.backupCount > 0
    THEN LET shifted == ShiftBackups(h.files, h.backupCount)
         IN  [h EXCEPT !.files = [shifted EXCEPT ![1] = shifted[0], ![0] = 0]]
    ELSE h

DoRollover(h) ==
    IF h.backupCount > 0
    THEN LET shifted == ShiftBackups(h.files, h.backupCount - 1)
         IN  [h EXCEPT !.files = [shifted EXCEPT ![1] = shifted[0], ![0] = 0]]
    ELSE h

VARIABLES
    config,     \* the configuration file every manager is constructed from
    broken,     \* the sinks whose writes fail (disk full)
    disk,       \* the files of a rotating_file handler
    singleton,  \* per process: how it started, and LoggerSingleton's class attributes
    calls,      \* history: the LoggerSingleton(...) calls made, in order
    scope,      \* per manager: where its with-block stands
    mgrs,       \* the manager instances, in construction order
    queues,     \* the multiprocessing queues, in creation order
    listeners,  \* the QueueListener objects, in creation order
    registry,   \* per process: logging's name -> logger table
    sinks,      \* per sink file: the records written, in order
    emitted,    \* history: the log calls made, in order
    arrivals,   \* history: per queue, every item ever appended, in order
    dropped,    \* history: records a QueueHandler failed to enqueue
    noopStops,  \* history: managers whose stop() returned without doing anything
    raised,     \* history: the exceptions raised, to a caller or out of a finalizer
    stderr      \* history: the write failures reported by Handler.handleError

vars == <<config, broken, disk, singleton, calls, scope, mgrs, queues, listeners, registry, sinks, emitted, arrivals,
          dropped, noopStops, raised, stderr>>

Range(s) == {s[i] : i \in 1..Len(s)}

\* The shutdown sentinel (None in QueueListener); real records have id >= 1.
Sentinel == [id |-> 0, name |-> <<>>, level |-> NOTSET, proc |-> 0, mgr |-> None,
             enabled |-> FALSE]

NoFacade == [exists |-> FALSE, level |-> NOTSET, handlers |-> <<>>,
             propagate |-> TRUE, boundBy |-> None]

\* ------------------------------------------------------------ configuration
RecognizedTypesStreamOnly == {"stream"}

RecognizedTypes == {"stream", "file", "rotating_file", "timed_rotating_file"}

NoHandler == [kind |-> "none", target |-> 0, level |-> NOTSET, mgr |-> None, open |-> FALSE]

\* _create_handler: a handler object for a recognized type, None otherwise.
\* The object remembers the manager that created it (object identity).  A
\* file handler opens its file when it is created (open); no statement of
\* the managers closes a handler.
CreateHandler(m, hc) ==
    IF hc.type \in RecognizedTypes
    THEN [kind |-> hc.type, target |-> hc.sink, level |-> hc.level, mgr |-> m, open |-> TRUE]
    ELSE NoHandler

RECURSIVE BuildHandlers(_, _, _)
BuildHandlers(m, entries, acc) ==
    IF entries = <<>> THEN acc
    ELSE LET handler == CreateHandler(m, Head(entries))
         IN  BuildHandlers(m, Tail(entries),
                           IF handler # NoHandler THEN Append(acc, handler) ELSE acc)

\* _determine_mode of UnifiedLogger
DetermineModeQueueFirst(use_multiprocessing, log_queue) ==
    IF log_queue # None THEN MULTI_PROCESS_WORKER
    ELSE IF use_multiprocessing THEN MULTI_PROCESS_MAIN
    ELSE SINGLE_PROCESS

DetermineMode(use_multiprocessing, log_queue) ==
    IF ~use_multiprocessing THEN SINGLE_PROCESS
    ELSE IF log_queue = None THEN MULTI_PROCESS_MAIN
    ELSE MULTI_PROCESS_WORKER

\* _setup_handlers: UnifiedLogger returns early in the worker mode, every
\* other class builds the chain unconditionally.
SetupHandlersInEveryMode(m, cls, mode) == BuildHandlers(m, HandlersConfig, <<>>)

SetupHandlers(m, cls, mode) ==
    IF cls = "UnifiedLogger" /\ mode = MULTI_PROCESS_WORKER THEN <<>>
    ELSE BuildHandlers(m, HandlersConfig, <<>>)

\* multiprocessing.Queue() or multiprocessing.Queue(maxsize=queue_size)
\* (creator: the manager whose constructor made the queue; closed: the
\* queue's close() was called, which no statement of the managers does)
\* queue_size: the argument the queue was asked for (bookkeeping).
MakeQueueUnbounded(queue_size, m) ==
    [maxsize |-> 0, queue_size |-> queue_size,
     items |-> <<>>, creator |-> m, closed |-> FALSE]

MakeQueue(queue_size, m) ==
    [maxsize |-> IF queue_size = UnboundedSize THEN 0 ELSE queue_size,
     queue_size |-> queue_size,
     items |-> <<>>, creator |-> m, closed |-> FALSE]

\* multiprocessing.Queue is bounded only for maxsize > 0
Full(q) == q.maxsize > 0 /\ Len(q.items) >= q.maxsize

\* logging.handlers.QueueListener(log_queue, *handlers, respect_handler_level=True)
MakeListenerDefaultFlag(q, handlers) ==
    [queue |-> q, handlers |-> handlers, respect_handler_level |-> FALSE, alive |-> TRUE]

MakeListener(q, handlers) ==
    [queue |-> q, handlers |-> handlers, respect_handler_level |-> TRUE, alive |-> TRUE]

\* the condition under which Logger.__init__ runs _setup_multiprocessing
\* and sets is_listener_owner
LoggerCreatesListenerAnyQueue(use_multiprocessing, log_queue) ==
    use_multiprocessing

LoggerCreatesListener(use_multiprocessing, log_queue) ==
    use_multiprocessing /\ log_queue = None

\* the condition under which UnifiedLogger.__init__ runs _setup_multiprocessing
UnifiedCreatesListenerAnyMulti(mode) == mode # SINGLE_PROCESS

UnifiedCreatesListener(mode) == mode = MULTI_PROCESS_MAIN

\* the ownership token of a manager instance
Token(mgr) ==
    IF mgr.cls = "UnifiedLogger" THEN mgr.mode = MULTI_PROCESS_MAIN
    ELSE mgr.is_owner

\* does get_logger of this manager bind the facade to the queue?
BindsToQueueIfListener(mgr) ==
    CASE mgr.cls = "Logger" -> mgr.listener # None
      [] mgr.cls = "UnifiedLogger" -> mgr.listener # None
      [] mgr.cls = "MultiProcessLogger" -> mgr.listener # None
      [] OTHER -> FALSE

BindsToQueue(mgr) ==
    CASE mgr.cls = "Logger" -> mgr.use_multiprocessing
      [] mgr.cls = "UnifiedLogger" -> mgr.mode # SINGLE_PROCESS
      [] mgr.cls = "MultiProcessLogger" -> TRUE
      [] mgr.cls = "LoggerSingleton" -> mgr.use_multiprocessing
      [] OTHER -> FALSE

\* where the with statement of a manager stands: st is "out" (none entered),
\* "in" (inside the block), "exiting" (__exit__ is waiting in the join) or
\* "left"; exc: the block ended by an exception; result: what the with
\* statement ended with
OutOfScope == [st |-> "out", exc |-> FALSE, result |-> "none"]

\* LoggerSingleton's class attributes when the module has been imported:
\* _instance = None, _initialized = False.  start: how the process came to
\* run ("main", "fork", "spawn"; "none": not started); inherited: the process
\* was forked from a parent whose instance was initialized.
ClassState(start) ==
    [start |-> start, instance |-> None, initialized |-> FALSE, inherited |-> FALSE]

\* ------------------------------------------------------------------- Init
\* nothing constructed, nothing logged yet; process 1 is the main process
NothingLogged ==
    /\ singleton = [p \in Procs |-> ClassState(IF p = 1 THEN "main" ELSE "none")]
    /\ calls = <<>>
    /\ scope = [m \in 1..MaxMgrs |-> OutOfScope]
    /\ mgrs = <<>>
    /\ queues = <<>>
    /\ listeners = <<>>
    /\ registry = [p \in Procs |-> [n \in LoggerNames |-> NoFacade]]
    /\ sinks = [s \in SinkIds |-> <<>>]
    /\ emitted = <<>>
    /\ arrivals = <<>>
    /\ dropped = {}
    /\ noopStops = {}
    /\ raised = {}
    /\ stderr = {}

Fresh ==
    /\ NothingLogged
    /\ disk = NoRotation

Init ==
    /\ config \in ConfigFiles
    /\ broken = {}
    /\ Fresh

\* ----------------------------------------------------------- construction
\* A constructor call that ends in _load_config raising: the exception
\* reaches the caller, the statements after it never run.  (done: the
\* statements that ran before the raise.)
ConstructRaises(ctor) ==
    /\ LoadConfig(config) # "ok"
    /\ raised' = raised \cup {[op |-> ctor, error |-> LoadConfig(config),
                               done |-> StepsBefore(InitOrder(ctor), "_load_config")]}
    /\ UNCHANGED <<config, broken, disk, singleton, calls, scope, mgrs, queues, listeners, registry, sinks, emitted,
                   arrivals, dropped, noopStops, stderr>>

\* All managers of one run come from one module, and the first one lives in
\* process 1.
CanConstruct(cls, p) ==
    /\ LoadConfig(config) = "ok"
    /\ Len(mgrs) < MaxMgrs
    /\ mgrs # <<>> => ModuleOf(mgrs[1].cls) = ModuleOf(cls)
    /\ mgrs = <<>> => p = 1

\* The attributes of an instance when its constructor returns.  arg_queue
\* (the log_queue argument), pc (where a stop() call stands), stopped (a
\* stop() call has joined the listener) and stopRaised (a stop() call has
\* raised queue.Full) are bookkeeping, not attributes.
NewMgr(cls, p, use_mp, arg_queue, log_queue, listener, handlers, is_owner, mode) ==
    [cls |-> cls, proc |-> p, use_multiprocessing |-> use_mp,
     arg_queue |-> arg_queue,
     log_queue |-> log_queue, listener |-> listener, handlers |-> handlers,
     is_owner |-> is_owner, mode |-> mode,
     pc |-> "idle", stopped |-> FALSE, stopRaised |-> FALSE]

\* _setup_multiprocessing: a new queue and a started listener on it
SetupMultiprocessing(queue_size, handlers) ==
    /\ queues' = Append(queues, MakeQueue(queue_size, Len(mgrs) + 1))
    /\ arrivals' = Append(arrivals, <<>>)
    /\ listeners' = Append(listeners, MakeListener(Len(queues) + 1, handlers))

\* Logger.__init__
ConstructLogger(p, use_mp, log_queue, queue_size) ==
    /\ CanConstruct("Logger", p)
    /\ LET m == Len(mgrs) + 1
           handlers == SetupHandlers(m, "Logger", "")
       IN  IF LoggerCreatesListener(use_mp, log_queue)
           THEN /\ SetupMultiprocessing(queue_size, handlers)
                /\ mgrs' = Append(mgrs, NewMgr("Logger", p, use_mp, log_queue, Len(queues) + 1,
                                               Len(listeners) + 1, handlers, TRUE, ""))
           ELSE /\ mgrs' = Append(mgrs, NewMgr("Logger", p, use_mp, log_queue, log_queue,
                                               None, handlers, FALSE, ""))
                /\ UNCHANGED <<queues, arrivals, listeners>>
    /\ UNCHANGED <<config, broken, disk, singleton, calls, scope, registry, sinks, emitted, dropped, noopStops, raised, stderr>>

\* UnifiedLogger.get_mode
GetMode(mgr) == mgr.mode

\* UnifiedLogger.__init__
ConstructUnified(p, use_mp, log_queue, queue_size) ==
    /\ CanConstruct("UnifiedLogger", p)
    /\ LET m == Len(mgrs) + 1
           mode == DetermineMode(use_mp, log_queue)
           handlers == SetupHandlers(m, "UnifiedLogger", mode)
       IN  IF UnifiedCreatesListener(mode)
           THEN /\ SetupMultiprocessing(queue_size, handlers)
                /\ mgrs' = Append(mgrs, NewMgr("UnifiedLogger", p, use_mp, log_queue, Len(queues) + 1,
                                               Len(listeners) + 1, handlers, FALSE, mode))
           ELSE /\ mgrs' = Append(mgrs, NewMgr("UnifiedLogger", p, use_mp, log_queue, log_queue,
                                               None, handlers, FALSE, mode))
                /\ UNCHANGED <<queues, arrivals, listeners>>
    /\ UNCHANGED <<config, broken, disk, singleton, calls, scope, registry, sinks, emitted, dropped, noopStops, raised, stderr>>

\* SingleProcessLogger.__init__
ConstructSingle(p) ==
    /\ CanConstruct("SingleProcessLogger", p)
    /\ LET m == Len(mgrs) + 1
           handlers == SetupHandlers(m, "SingleProcessLogger", "")
       IN  mgrs' = Append(mgrs, NewMgr("SingleProcessLogger", p, FALSE, None, None,
                                       None, handlers, FALSE, ""))
    /\ UNCHANGED <<config, broken, disk, singleton, calls, scope, queues, arrivals, listeners, registry, sinks, emitted, dropped,
                 noopStops, raised, stderr>>

\* MultiProcessLogger.__init__
ConstructMulti(p, queue_size) ==
    /\ CanConstruct("MultiProcessLogger", p)
    /\ LET m == Len(mgrs) + 1
           handlers == SetupHandlers(m, "MultiProcessLogger", "")
       IN  /\ SetupMultiprocessing(queue_size, handlers)
           /\ mgrs' = Append(mgrs, NewMgr("MultiProcessLogger", p, TRUE, None, Len(queues) + 1,
                                          Len(listeners) + 1, handlers, TRUE, ""))
    /\ UNCHANGED <<config, broken, disk, singleton, calls, scope, registry, sinks, emitted, dropped, noopStops, raised, stderr>>

\* MultiProcessLogger.from_queue
FromQueue(p, log_queue) ==
    /\ CanConstruct("MultiProcessLogger", p)
    /\ LET m == Len(mgrs) + 1
           handlers == SetupHandlers(m, "MultiProcessLogger", "")
       IN  mgrs' = Append(mgrs, NewMgr("MultiProcessLogger", p, TRUE, log_queue, log_queue,
                                       None, handlers, FALSE, ""))
    /\ UNCHANGED <<config, broken, disk, singleton, calls, scope, queues, arrivals, listeners, registry, sinks, emitted, dropped,
                 noopStops, raised, stderr>>

\* ------------------------------------------------------------ get_logger
\* logging.Logger.addHandler: a handler already in the list is not added again
AddHandler(hs, h) == IF h \in Range(hs) THEN hs ELSE Append(hs, h)

RECURSIVE AddHandlers(_, _)
AddHandlers(hs, new) ==
    IF new = <<>> THEN hs ELSE AddHandlers(AddHandler(hs, Head(new)), Tail(new))

\* logger.handlers.clear()
ClearHandlersKeep(hs) == hs

ClearHandlers(hs) == <<>>

\* logging.handlers.QueueHandler(self.log_queue); its level stays NOTSET
QueueHandlerOn(m, q) ==
    [kind |-> "queue", target |-> q, level |-> NOTSET, mgr |-> m, open |-> FALSE]

\* the handlers get_logger attaches after clearing the list
BoundHandlersFirstWins(m, old) ==
    IF old # <<>> THEN old
    ELSE IF BindsToQueue(mgrs[m])
    THEN AddHandler(ClearHandlers(old), QueueHandlerOn(m, mgrs[m].log_queue))
    ELSE AddHandlers(ClearHandlers(old), mgrs[m].handlers)

BoundHandlers(m, old) ==
    IF BindsToQueue(mgrs[m])
    THEN AddHandler(ClearHandlers(old), QueueHandlerOn(m, mgrs[m].log_queue))
    ELSE AddHandlers(ClearHandlers(old), mgrs[m].handlers)

\* the level get_logger sets: root.level of the configuration, else the argument
FacadeLevelArgument(level) == level

FacadeLevel(level) == DictGet(config.root, "level", level)

\* the propagate flag get_logger sets: root.propagate, else False
FacadePropagate == DictGet(config.root, "propagate", FALSE)

\* get_logger(name, level) of every manager class
GetLogger(m, name, level) ==
    /\ m \in 1..Len(mgrs)
    /\ mgrs[m].pc = "idle"
    /\ LET p == mgrs[m].proc
           old == registry[p][name]
       IN  registry' = [registry EXCEPT ![p][name] =
                          [exists |-> TRUE,
                           level |-> FacadeLevel(level),
                           handlers |-> BoundHandlers(m, old.handlers),
                           propagate |-> FacadePropagate,
                           boundBy |-> m]]
    /\ UNCHANGED <<config, broken, disk, singleton, calls, scope, mgrs, queues, listeners, sinks, emitted, arrivals, dropped,
                 noopStops, raised, stderr>>

\* -------------------------------------------------------------- dispatch
\* The part of the state a handler can change.
\* (exc: an exception is on its way up the call stack)
World == [sinks |-> sinks, queues |-> queues, arrivals |-> arrivals, dropped |-> dropped,
          stderr |-> stderr, exc |-> FALSE]

\* queue.put_nowait(item): appended unless the queue is full.  The order of
\* the items is the order in which they reach the queue; a sender's own
\* items reach it in the order sent.
CanPut(w, q) == ~Full(w.queues[q])

Put(w, q, item) ==
    [w EXCEPT !.queues[q].items = Append(@, item),
              !.arrivals[q] = Append(@, item)]

\* QueueHandler.emit: put_nowait; queue.Full is caught and reported
\* (handleError), the record is not enqueued
QueueEmitDropOldest(w, q, rec) ==
    IF CanPut(w, q) THEN Put(w, q, rec)
    ELSE Put([w EXCEPT !.queues[q].items = Tail(@)], q, rec)

QueueEmit(w, q, rec) ==
    IF CanPut(w, q) THEN Put(w, q, rec)
    ELSE [w EXCEPT !.dropped = @ \cup {rec.id}]

\* Handler.handleError, called by emit when the write raised: the failure is
\* reported on sys.stderr and nothing is raised
HandleErrorRaises(w, h, rec) == [w EXCEPT !.exc = TRUE]

HandleError(w, h, rec) == [w EXCEPT !.stderr = @ \cup {<<rec.id, h.target>>}]

\* Formatter.format with the format string of _create_handler: the logger
\* name, the level name and the message (the record's number stands for it)
FormatNoName(rec) == [name |-> <<>>, levelname |-> rec.level, message |-> rec.id]

Format(rec) == [name |-> rec.name, levelname |-> rec.level, message |-> rec.id]

\* a file handler's emit: one formatted line appended to the sink.  by: the
\* manager whose chain the handler belongs to; via: the facade whose list
\* held the handler (empty for the listener); src: the queue and arrival
\* index of the item (<<0, 0>> for a direct write).  A write to a broken
\* sink raises inside emit, which hands it to handleError.
Write(w, h, rec, via, src) ==
    IF h.target \in broken THEN HandleError(w, h, rec)
    ELSE [w EXCEPT !.sinks[h.target] =
             Append(@, [id |-> rec.id, by |-> h.mgr, via |-> via, src |-> src,
                        text |-> Format(rec)])]

\* the level check in front of every handler
Admits(h, rec) == rec.level >= h.level

\* Logger.callHandlers for one logger: each handler of the list in turn
RECURSIVE HandleAll(_, _, _, _)
HandleAll(w, hs, rec, via) ==
    IF hs = <<>> THEN w
    ELSE LET h == Head(hs)
             w1 == IF ~Admits(h, rec) THEN w
                   ELSE IF h.kind = "queue" THEN QueueEmit(w, h.target, rec)
                   ELSE Write(w, h, rec, via, <<0, 0>>)
         IN  IF w1.exc THEN w1 ELSE HandleAll(w1, Tail(hs), rec, via)

Parent(name) == SubSeq(name, 1, Len(name) - 1)

\* Logger.callHandlers: the logger's own handlers, then those of its
\* ancestors for as long as propagate is set.  The root logger <<>> and
\* names never requested carry no handlers.
RECURSIVE CallHandlers(_, _, _, _)
CallHandlers(w, p, name, rec) ==
    IF name = <<>> THEN w
    ELSE IF name \notin LoggerNames \/ ~registry[p][name].exists
    THEN CallHandlers(w, p, Parent(name), rec)
    ELSE LET f == registry[p][name]
             w1 == HandleAll(w, f.handlers, rec, name)
         IN  IF f.propagate /\ ~w1.exc THEN CallHandlers(w1, p, Parent(name), rec) ELSE w1

\* Logger.isEnabledFor: the facade's level filter in front of the handlers
IsEnabledForAlways(f, level) == TRUE

IsEnabledFor(f, level) == level >= f.level

\* logger.debug/info/warning/... on a facade of process p.  The record
\* remembers the manager the facade was bound by and whether it passed the
\* facade's level (bookkeeping).  An exception a handler lets through
\* reaches the caller of the log call.
Emit(p, name, level) ==
    /\ Len(emitted) < MaxEmit
    /\ registry[p][name].exists
    /\ LET rec == [id |-> Len(emitted) + 1, name |-> name, level |-> level, proc |-> p,
                   mgr |-> registry[p][name].boundBy,
                   enabled |-> IsEnabledFor(registry[p][name], level)]
           w == IF rec.enabled THEN CallHandlers(World, p, name, rec) ELSE World
       IN  /\ emitted' = Append(emitted, rec)
           /\ sinks' = w.sinks
           /\ queues' = w.queues
           /\ arrivals' = w.arrivals
           /\ dropped' = w.dropped
           /\ stderr' = w.stderr
           /\ raised' = IF w.exc
                        THEN raised \cup {[op |-> "log", error |-> "OSError", done |-> {}]}
                        ELSE raised
    /\ UNCHANGED <<config, broken, disk, singleton, calls, scope, mgrs, listeners, registry, noopStops>>

\* --------------------------------------------------------------- listener
\* QueueListener.handle: every handler whose level admits the record
RECURSIVE ListenerHandle(_, _, _, _, _)
ListenerHandle(w, hs, respect, rec, src) ==
    IF hs = <<>> THEN w
    ELSE LET h == Head(hs)
             process == IF ~respect THEN TRUE ELSE Admits(h, rec)
             w1 == IF process THEN Write(w, h, rec, <<>>, src) ELSE w
         IN  IF w1.exc THEN w1 ELSE ListenerHandle(w1, Tail(hs), respect, rec, src)

\* _monitor on the sentinel: break, the thread ends
MonitorExitKeepsRunning(lst) == lst

MonitorExit(lst) == [lst EXCEPT !.alive = FALSE]

\* one turn of QueueListener._monitor: dequeue; the sentinel ends the
\* thread, any other item is handled (an exception out of handle would end
\* the thread too: the loop catches queue.Empty only)
ListenerStep(l) ==
    /\ l \in 1..Len(listeners)
    /\ listeners[l].alive
    /\ LET q == listeners[l].queue
           item == Head(queues[q].items)
           k == Len(arrivals[q]) - Len(queues[q].items) + 1
           w0 == [World EXCEPT !.queues[q].items = Tail(@)]
       IN  /\ queues[q].items # <<>>
           /\ IF item = Sentinel
              THEN /\ listeners' = [listeners EXCEPT ![l] = MonitorExit(@)]
                   /\ queues' = w0.queues
                   /\ UNCHANGED <<sinks, stderr>>
              ELSE LET w == ListenerHandle(w0, listeners[l].handlers,
                                           listeners[l].respect_handler_level, item, <<q, k>>)
                   IN  /\ sinks' = w.sinks
                       /\ queues' = w.queues
                       /\ stderr' = w.stderr
                       /\ listeners' = IF w.exc THEN [listeners EXCEPT ![l].alive = FALSE]
                                       ELSE listeners
    /\ UNCHANGED <<config, broken, disk, singleton, calls, scope, mgrs, registry, emitted, arrivals, dropped, noopStops, raised>>

\* ------------------------------------------------------------- get_queue
\* the classes that define get_queue
HasGetQueue(mgr) == mgr.cls \in {"UnifiedLogger", "MultiProcessLogger"}

\* get_queue(): UnifiedLogger returns the queue only when use_multiprocessing
\* is set, MultiProcessLogger returns its queue
GetQueueAlways(mgr) == mgr.log_queue

GetQueue(mgr) ==
    IF mgr.cls = "UnifiedLogger"
    THEN IF mgr.use_multiprocessing THEN mgr.log_queue ELSE None
    ELSE mgr.log_queue

\* ------------------------------------------------------------------- stop
HasStop(mgr) == mgr.cls # "SingleProcessLogger"

\* stop(): the queue of the listener to stop, None when the guard
\* "self.listener and <ownership token>" fails
StopTargetNoListenerCheck(mgr) ==
    IF Token(mgr) THEN mgr.log_queue ELSE None

StopTargetAnyMultiprocess(mgr) ==
    IF mgr.use_multiprocessing /\ mgr.log_queue # None THEN mgr.log_queue ELSE None

StopTarget(mgr) ==
    IF mgr.listener # None /\ Token(mgr) THEN listeners[mgr.listener].queue ELSE None

\* stop() up to the join: when the guard fails it returns at once;
\* otherwise QueueListener.stop enqueues the sentinel with put_nowait
\* (queue.Full propagates to the caller) and waits for the thread.
Stop(m) ==
    /\ m \in 1..Len(mgrs)
    /\ HasStop(mgrs[m])
    /\ mgrs[m].pc = "idle"
    /\ LET q == StopTarget(mgrs[m])
       IN  IF q = None
           THEN /\ noopStops' = noopStops \cup {m}
                /\ UNCHANGED <<mgrs, queues, arrivals>>
           ELSE IF CanPut(World, q)
           THEN /\ queues' = Put(World, q, Sentinel).queues
                /\ arrivals' = Put(World, q, Sentinel).arrivals
                /\ mgrs' = [mgrs EXCEPT ![m].pc = "joining"]
                /\ UNCHANGED noopStops
           ELSE /\ mgrs' = [mgrs EXCEPT ![m].stopRaised = TRUE]
                /\ UNCHANGED <<queues, arrivals, noopStops>>
    /\ UNCHANGED <<config, broken, disk, singleton, calls, listeners, registry, sinks, emitted, dropped, raised, stderr>>

\* a call of stop() outside a with statement
StopCall(m) == Stop(m) /\ UNCHANGED scope

\* self._thread.join() returns once the listener thread has ended
JoinReturnsAtOnce(l) == TRUE

JoinReturns(l) == ~listeners[l].alive

\* the statement after the join: self.listener = None
AfterJoinDropsQueue(mgr) ==
    [mgr EXCEPT !.pc = "idle", !.listener = None, !.log_queue = None, !.stopped = TRUE]

AfterJoinKeepsListener(mgr) == [mgr EXCEPT !.pc = "idle", !.stopped = TRUE]

AfterJoin(mgr) == [mgr EXCEPT !.pc = "idle", !.listener = None, !.stopped = TRUE]

\* the rest of stop()
Join(m) ==
    /\ m \in 1..Len(mgrs)
    /\ mgrs[m].pc = "joining"
    /\ mgrs[m].listener # None
    /\ JoinReturns(mgrs[m].listener)
    /\ mgrs' = [mgrs EXCEPT ![m] = AfterJoin(@)]
    /\ UNCHANGED <<config, broken, disk, singleton, calls, queues, listeners, registry, sinks, emitted, arrivals, dropped,
                   noopStops, raised, stderr>>

StopJoin(m) == Join(m) /\ scope[m].st # "exiting" /\ UNCHANGED scope

\* __exit__: self.stop(); SingleProcessLogger.__exit__ does nothing
ExitCall(m) ==
    /\ m \in 1..Len(mgrs)
    /\ IF HasStop(mgrs[m]) THEN StopCall(m) ELSE UNCHANGED vars

\* __del__: self.stop()
DelCall(m) == StopCall(m)

\* ---------------------------------------------------------- with statement
NotScope == <<config, broken, disk, singleton, calls, mgrs, queues, listeners, registry, sinks, emitted, arrivals,
              dropped, noopStops, raised, stderr>>

\* __enter__: return self
WithEnter(m) ==
    /\ m \in 1..Len(mgrs)
    /\ scope[m].st = "out"
    /\ mgrs[m].pc = "idle"
    /\ scope' = [scope EXCEPT ![m].st = "in"]
    /\ UNCHANGED NotScope

\* the value __exit__ returns (None); a true value would suppress the
\* exception the block ended with
ExitReturn(mgr) == FALSE

\* does __exit__(exc_type, exc_val, exc_tb) call stop()?
ExitStopsUnlessException(mgr, exc) == HasStop(mgr) /\ ~exc

ExitStops(mgr, exc) == HasStop(mgr)

\* the with statement once __exit__ has returned
Leave(sc, suppress) ==
    [sc EXCEPT !.st = "left",
               !.result = IF sc.exc /\ ~suppress THEN "exception" ELSE "normal"]

\* the block ends (exc: by an exception) and __exit__ runs up to the join
WithExit(m, exc) ==
    /\ m \in 1..Len(mgrs)
    /\ scope[m].st = "in"
    /\ mgrs[m].pc = "idle"
    /\ IF ExitStops(mgrs[m], exc) THEN Stop(m) ELSE UNCHANGED NotScope
    /\ scope' = [scope EXCEPT ![m] =
                   IF mgrs'[m].pc = "joining"
                   THEN [@ EXCEPT !.st = "exiting", !.exc = exc]
                   ELSE IF mgrs'[m].stopRaised /\ ~mgrs[m].stopRaised
                   THEN [st |-> "left", exc |-> exc, result |-> "queue.Full"]
                   ELSE Leave([@ EXCEPT !.exc = exc], ExitReturn(mgrs[m]))]

\* __exit__ after the join
WithExitJoin(m) ==
    /\ m \in 1..Len(mgrs)
    /\ scope[m].st = "exiting"
    /\ Join(m)
    /\ scope' = [scope EXCEPT ![m] = Leave(@, ExitReturn(mgrs[m]))]

\* ------------------------------------------------------------------- Next
QueueArgs == {None} \cup (1..Len(queues))

Next ==
    \/ \E p \in Procs, use_mp \in BOOLEAN, lq \in QueueArgs, qs \in QueueSizes :
          ConstructLogger(p, use_mp, lq, qs)
    \/ \E p \in Procs, use_mp \in BOOLEAN, lq \in QueueArgs, qs \in QueueSizes :
          ConstructUnified(p, use_mp, lq, qs)
    \/ \E p \in Procs : ConstructSingle(p)
    \/ \E p \in Procs, qs \in QueueSizes : ConstructMulti(p, qs)
    \/ \E p \in Procs, lq \in 1..Len(queues) : FromQueue(p, lq)
    \/ \E m \in 1..Len(mgrs), name \in Names, level \in ArgLevels : GetLogger(m, name, level)
    \/ \E p \in Procs, name \in Names, level \in EmitLevels : Emit(p, name, level)
    \/ \E l \in 1..Len(listeners) : ListenerStep(l)
    \/ \E m \in 1..Len(mgrs) : StopCall(m)
    \/ \E m \in 1..Len(mgrs) : ExitCall(m)
    \/ \E m \in 1..Len(mgrs) : DelCall(m)
    \/ \E m \in 1..Len(mgrs) : StopJoin(m)
    \/ \E ctor \in Ctors : ConstructRaises(ctor)

Spec == Init /\ [][Next]_vars

\* the configuration file of the tests: root.level DEBUG, propagate false
TestConfig == ConfigFile(TRUE, ".JSON", [level |-> DEBUG, propagate |-> FALSE])

\* ------------------------------------------------ runs with a failing sink
\* One of the two sink files cannot be written.
BrokenChoices == {{1}, {2}}

InitFail ==
    /\ config = TestConfig
    /\ broken \in BrokenChoices
    /\ Fresh

NextFail ==
    \/ \E p \in Procs, use_mp \in BOOLEAN, lq \in QueueArgs :
          ConstructLogger(p, use_mp, lq, UnboundedSize)
    \/ \E p \in Procs, use_mp \in BOOLEAN, lq \in QueueArgs :
          ConstructUnified(p, use_mp, lq, UnboundedSize)
    \/ \E p \in Procs : ConstructSingle(p)
    \/ \E p \in Procs : ConstructMulti(p, UnboundedSize)
    \/ \E p \in Procs, lq \in 1..Len(queues) : FromQueue(p, lq)
    \/ \E m \in 1..Len(mgrs), name \in Names, level \in ArgLevels : GetLogger(m, name, level)
    \/ \E p \in Procs, name \in Names, level \in EmitLevels : Emit(p, name, level)
    \/ \E l \in 1..Len(listeners) : ListenerStep(l)
    \/ \E m \in 1..Len(mgrs) : StopCall(m)
    \/ \E m \in 1..Len(mgrs) : StopJoin(m)

SpecFail == InitFail /\ [][NextFail]_vars

\* ------------------------------------------- runs with the with statement
InitWith ==
    /\ config = TestConfig
    /\ broken = {}
    /\ Fresh

NextWith ==
    \/ \E p \in Procs, use_mp \in BOOLEAN, lq \in QueueArgs, qs \in QueueSizes :
          ConstructLogger(p, use_mp, lq, qs)
    \/ \E p \in Procs, use_mp \in BOOLEAN, lq \in QueueArgs, qs \in QueueSizes :
          ConstructUnified(p, use_mp, lq, qs)
    \/ \E p \in Procs : ConstructSingle(p)
    \/ \E p \in Procs, qs \in QueueSizes : ConstructMulti(p, qs)
    \/ \E p \in Procs, lq \in 1..Len(queues) : FromQueue(p, lq)
    \/ \E m \in 1..Len(mgrs), name \in Names, level \in ArgLevels : GetLogger(m, name, level)
    \/ \E p \in Procs, name \in Names, level \in EmitLevels : Emit(p, name, level)
    \/ \E l \in 1..Len(listeners) : ListenerStep(l)
    \/ \E m \in 1..Len(mgrs) : WithEnter(m)
    \/ \E m \in 1..Len(mgrs), exc \in BOOLEAN : WithExit(m, exc)
    \/ \E m \in 1..Len(mgrs) : WithExitJoin(m)

SpecWith == InitWith /\ [][NextWith]_vars

\* ------------------------------------------- runs over the root section
\* Every shape of the root section: each of level and propagate present or
\* not; callers that pass different level arguments.
RootSection(keys, level, propagate) ==
    [k \in keys |-> IF k = "level" THEN level ELSE propagate]

RootSections ==
    {RootSection(keys, level, propagate) :
        keys \in SUBSET {"level", "propagate"}, level \in {DEBUG, WARNING}, propagate \in BOOLEAN}

BindLevels == {DEBUG, INFO, ERROR}

InitBind ==
    /\ config \in {ConfigFile(TRUE, ".yaml", root) : root \in RootSections}
    /\ broken = {}
    /\ Fresh

NextBind ==
    \/ \E p \in Procs, use_mp \in BOOLEAN : ConstructLogger(p, use_mp, None, UnboundedSize)
    \/ \E p \in Procs, use_mp \in BOOLEAN : ConstructUnified(p, use_mp, None, UnboundedSize)
    \/ \E p \in Procs : ConstructSingle(p)
    \/ \E p \in Procs : ConstructMulti(p, UnboundedSize)
    \/ \E m \in 1..Len(mgrs), name \in Names, level \in BindLevels : GetLogger(m, name, level)
    \/ \E p \in Procs, name \in Names, level \in EmitLevels : Emit(p, name, level)
    \/ \E l \in 1..Len(listeners) : ListenerStep(l)

SpecBind == InitBind /\ [][NextBind]_vars

\* ------------------------------------------------ runs with finalization
\* The attributes __init__ (from_queue) has assigned when it calls
\* _load_config.
AssignedBeforeLoad(ctor) ==
    CASE ctor = "Logger" ->
            {"config_path", "use_multiprocessing", "log_queue", "listener", "handlers",
             "config", "is_listener_owner"}
      [] ctor = "UnifiedLogger" ->
            {"config_path", "use_multiprocessing", "log_queue", "listener", "handlers",
             "config", "mode"}
      [] OTHER -> {"config_path", "handlers", "config"}

\* the constructors of the classes that define __del__
HasDel(ctor) == ctor # "SingleProcessLogger"

\* the name of the finalizer in the history
DelOf(ctor) ==
    CASE ctor = "Logger" -> "Logger.__del__"
      [] ctor = "UnifiedLogger" -> "UnifiedLogger.__del__"
      [] OTHER -> "MultiProcessLogger.__del__"

\* stop() on an instance with the given attributes, its listener None where
\* assigned: the guard reads self.listener first and, None being false,
\* nothing else
StopOnUnfinished(assigned) ==
    IF "listener" \in assigned THEN "returns" ELSE "AttributeError"

\* The instance of a constructor call that raised in _load_config is
\* released, and its __del__ runs stop().
FinalizeFailed(ctor) ==
    /\ HasDel(ctor)
    /\ \E r \in raised : r.op = ctor
    /\ raised' = IF StopOnUnfinished(AssignedBeforeLoad(ctor)) = "AttributeError"
                 THEN raised \cup {[op |-> DelOf(ctor), error |-> "AttributeError",
                                    done |-> AssignedBeforeLoad(ctor)]}
                 ELSE raised
    /\ UNCHANGED <<config, broken, disk, singleton, calls, scope, mgrs, queues, listeners, registry, sinks, emitted,
                   arrivals, dropped, noopStops, stderr>>

\* a manager the program still refers to
Live(m) == scope[m].st # "collected"

\* The program drops its last reference to a manager outside a with
\* statement; the facades it handed out stay in logging's table.  __del__
\* runs stop() (the join follows as for any stop()).
Finalize(m) ==
    /\ m \in 1..Len(mgrs)
    /\ scope[m].st = "out"
    /\ Stop(m)
    /\ scope' = [scope EXCEPT ![m].st = "collected"]

InitGc ==
    /\ config \in {TestConfig, ConfigFile(FALSE, ".yaml", [propagate |-> FALSE])}
    /\ broken = {}
    /\ Fresh

NextGc ==
    \/ \E p \in Procs, lq \in QueueArgs : ConstructLogger(p, TRUE, lq, UnboundedSize)
    \/ \E p \in Procs, lq \in QueueArgs : ConstructUnified(p, TRUE, lq, UnboundedSize)
    \/ \E p \in Procs : ConstructMulti(p, UnboundedSize)
    \/ \E p \in Procs, lq \in 1..Len(queues) : FromQueue(p, lq)
    \/ \E m \in 1..Len(mgrs), name \in Names, level \in ArgLevels :
          Live(m) /\ GetLogger(m, name, level)
    \/ \E p \in Procs, name \in Names, level \in EmitLevels : Emit(p, name, level)
    \/ \E l \in 1..Len(listeners) : ListenerStep(l)
    \/ \E m \in 1..Len(mgrs) : Live(m) /\ StopCall(m)
    \/ \E m \in 1..Len(mgrs) : StopJoin(m)
    \/ \E m \in 1..Len(mgrs) : Finalize(m)
    \/ \E ctor \in Ctors : ConstructRaises(ctor)
    \/ \E ctor \in Ctors : FinalizeFailed(ctor)

SpecGc == InitGc /\ [][NextGc]_vars

\* -------------------------------------------- runs in single-process mode
\* Managers without a queue, facades of two names neither of which is an
\* ancestor of the other, log calls of all five severities; root.level set
\* or not, root.propagate false or true.
SiblingNames == {<<"a">>, <<"b">>}

Severities == {DEBUG, INFO, WARNING, ERROR, CRITICAL}

SingleConfigs ==
    { TestConfig,
      ConfigFile(TRUE, ".yaml", [propagate |-> TRUE]),
      ConfigFile(TRUE, ".yaml", [level |-> WARNING]) }

InitSingle ==
    /\ config \in SingleConfigs
    /\ broken = {}
    /\ Fresh

NextSingle ==
    \/ \E p \in Procs : ConstructLogger(p, FALSE, None, UnboundedSize)
    \/ \E p \in Procs : ConstructUnified(p, FALSE, None, UnboundedSize)
    \/ \E p \in Procs : ConstructSingle(p)
    \/ \E m \in 1..Len(mgrs), name \in SiblingNames, level \in ArgLevels : GetLogger(m, name, level)
    \/ \E p \in Procs, name \in SiblingNames, level \in Severities : Emit(p, name, level)

SpecSingle == InitSingle /\ [][NextSingle]_vars

\* ------------------------------------ runs of one rotating_file handler
\* BaseRotatingHandler.emit: roll over first when the line asks for it,
\* then write the line to the base file
RotatingEmit(len) ==
    /\ disk.writes < MaxWrites
    /\ LET h == IF ShouldRollover(disk, len) THEN DoRollover(disk) ELSE disk
       IN  disk' = [h EXCEPT !.files[0] = @ + len,
                            !.written = @ + len,
                            !.longest = IF len > @ THEN len ELSE @,
                            !.writes = @ + 1]
    /\ UNCHANGED <<config, broken, singleton, calls, scope, mgrs, queues, listeners, registry, sinks, emitted,
                   arrivals, dropped, noopStops, raised, stderr>>

InitRotate ==
    /\ config = TestConfig
    /\ broken = {}
    /\ NothingLogged
    /\ disk \in {CreateRotatingHandler(hc) : hc \in RotatingConfigs}

NextRotate == \E len \in LineLengths : RotatingEmit(len)

SpecRotate == InitRotate /\ [][NextRotate]_vars

\* ================================================================ claims
MgrIds == 1..Len(mgrs)
QueueIds == 1..Len(queues)
ListenerIds == 1..Len(listeners)

\* the role a manager was constructed in, from its class and arguments
MultiRole(mgr) ==
    \/ mgr.cls = "MultiProcessLogger"
    \/ mgr.cls \in {"Logger", "UnifiedLogger"} /\ mgr.use_multiprocessing
WorkerRole(mgr) == MultiRole(mgr) /\ mgr.arg_queue # None
OwnerRole(mgr) == MultiRole(mgr) /\ mgr.arg_queue = None
SingleRole(mgr) == ~MultiRole(mgr)

ListenersOn(q) == {l \in ListenerIds : listeners[l].queue = q}
ManagersOn(q) == {m \in MgrIds : mgrs[m].log_queue = q}

\* the arrival index of the first sentinel of queue q (beyond the end if none)
FirstSentinel(q) ==
    LET S == {k \in 1..Len(arrivals[q]) : arrivals[q][k] = Sentinel}
    IN  IF S = {} THEN Len(arrivals[q]) + 1 ELSE CHOOSE k \in S : \A j \in S : k <= j
BeforeSentinel(q) == 1..(FirstSentinel(q) - 1)

\* the lines of sink s the listener wrote for the k-th arrival of queue q
Deliveries(s, q, k) == {i \in 1..Len(sinks[s]) : sinks[s][i].src = <<q, k>>}
\* the lines of sink s written for record id
LinesOf(s, id) == {i \in 1..Len(sinks[s]) : sinks[s][i].id = id}

\* the owner's stop() on queue q has returned
StopReturned(q) == \E m \in ManagersOn(q) : mgrs[m].stopped
Consumed(q) == Len(arrivals[q]) - Len(queues[q].items)

\* the threshold the configuration gives the handler of sink s
ConfigThreshold(s) ==
    HandlersConfig[CHOOSE i \in 1..Len(HandlersConfig) : HandlersConfig[i].sink = s].level

IsPrefix(a, b) == Len(a) <= Len(b) /\ SubSeq(b, 1, Len(a)) = a

StopOps(m) == StopCall(m) \/ ExitCall(m) \/ DelCall(m)

\* C1: every record that arrived in a queue before the sentinel is written by
\* the listener to each of its handlers whose threshold admits the record's
\* level, never more than once and exactly once by the time the owner's
\* stop() has returned, to no handler that does not admit it, and the lines
\* of one producer stand in a sink in that producer's emission order.
C1_DeliveredOnceInOrder ==
    /\ \A q \in QueueIds : \A l \in ListenersOn(q) :
         \A hi \in 1..Len(listeners[l].handlers) : \A k \in BeforeSentinel(q) :
            LET h == listeners[l].handlers[hi]
                due == IF arrivals[q][k].level >= h.level THEN 1 ELSE 0
                n == Cardinality(Deliveries(h.target, q, k))
            IN  /\ n <= due
                /\ StopReturned(q) => n = due
    /\ \A s \in SinkIds : \A i, j \in 1..Len(sinks[s]) :
         (/\ i < j
          /\ sinks[s][i].src[1] # 0
          /\ sinks[s][i].src[1] = sinks[s][j].src[1]
          /\ emitted[sinks[s][i].id].proc = emitted[sinks[s][j].id].proc)
         => sinks[s][i].id < sinks[s][j].id

\* C1 witness: an owner in process 1 has stopped after a worker of process 2
\* enqueued MaxEmit records, all of which stand in sink 1.
C1_Witness ==
    \E q \in QueueIds :
       /\ StopReturned(q)
       /\ mgrs[queues[q].creator].proc = 1
       /\ Cardinality(BeforeSentinel(q)) = MaxEmit
       /\ \A k \in BeforeSentinel(q) : arrivals[q][k].proc = 2
       /\ Len(sinks[1]) = MaxEmit

\* C2: once a stop() of a manager has returned after joining the listener, a
\* further stop(), __exit__ or __del__ of that manager changes nothing: no
\* sentinel, no raise, manager, queues, listeners and sinks as before.
C2_StopIdempotent ==
    [][\A m \in MgrIds :
         (mgrs[m].stopped /\ StopOps(m))
         => UNCHANGED <<mgrs, queues, listeners, registry, sinks, arrivals, dropped, emitted>>]_vars

\* C2 witness: an owner that has stopped has returned from a further stop().
C2_Witness == \E m \in MgrIds : mgrs[m].stopped /\ m \in noopStops

\* C3: stop(), __exit__ or __del__ of an instance that did not create its
\* queue leaves every queue, listener and sink untouched.
C3_WorkerStopHarmless ==
    [][\A m \in MgrIds :
         ((mgrs[m].log_queue = None \/ queues[mgrs[m].log_queue].creator # m) /\ StopOps(m))
         => UNCHANGED <<mgrs, queues, listeners, sinks, arrivals>>]_vars

\* C3 witness: a worker has returned from stop() while the listener of its
\* queue is running and has delivered a record of the worker's process.
C3_Witness ==
    \E m \in MgrIds :
       /\ WorkerRole(mgrs[m])
       /\ m \in noopStops
       /\ \E l \in ListenersOn(mgrs[m].log_queue) : listeners[l].alive
       /\ \E s \in SinkIds : \E i \in 1..Len(sinks[s]) :
             /\ sinks[s][i].src[1] = mgrs[m].log_queue
             /\ emitted[sinks[s][i].id].mgr = m

\* C4: the token is held by nobody but the creator of the queue, whose
\* listener reference (while present) is the listener on that queue, and an
\* instance constructed with a supplied queue never holds it.
C4_OneOwnerPerQueue ==
    /\ \A m \in MgrIds : Token(mgrs[m]) =>
          /\ mgrs[m].log_queue # None
          /\ queues[mgrs[m].log_queue].creator = m
          /\ mgrs[m].listener # None => listeners[mgrs[m].listener].queue = mgrs[m].log_queue
    /\ \A q \in QueueIds : Cardinality({m \in ManagersOn(q) : Token(mgrs[m])}) <= 1
    /\ \A m \in MgrIds : mgrs[m].arg_queue # None => ~Token(mgrs[m])

\* C4 witness: two managers on one queue, the creator with the token and an
\* instance constructed with that queue without it.
C4_Witness ==
    \E m1, m2 \in MgrIds :
       /\ m1 # m2
       /\ mgrs[m1].log_queue = mgrs[m2].log_queue
       /\ Token(mgrs[m1])
       /\ mgrs[m2].arg_queue = mgrs[m1].log_queue
       /\ mgrs[m2].use_multiprocessing

\* exactly one listener object was ever created on each queue
C5_OneListener == \A q \in QueueIds : Cardinality(ListenersOn(q)) = 1

\* C5: every queue has exactly one listener, and a step after which the
\* items of a queue are not the old items with new ones appended (an item
\* was taken out) is a step of that listener.
C5_SingleConsumer ==
    /\ []C5_OneListener
    /\ [][\A q \in QueueIds :
            ~IsPrefix(queues[q].items, queues'[q].items)
            => \E l \in ListenersOn(q) : ListenerStep(l)]_vars

\* C5 witness: a full bounded queue fed by two managers, of which the
\* listener has already consumed an item.
C5_Witness ==
    \E q \in QueueIds :
       /\ Cardinality(ManagersOn(q)) = 2
       /\ Full(queues[q])
       /\ Consumed(q) >= 1
       /\ dropped # {}

\* the mode-resolution table
ModeTable(use_mp, supplied) ==
    CASE ~use_mp -> SINGLE_PROCESS
      [] use_mp /\ ~supplied -> MULTI_PROCESS_MAIN
      [] use_mp /\ supplied -> MULTI_PROCESS_WORKER

\* C6: get_mode() of a UnifiedLogger returns the mode the table gives for
\* its two constructor arguments, in every state (also after stop()).
C6_ModeResolution ==
    \A m \in MgrIds : mgrs[m].cls = "UnifiedLogger" =>
       GetMode(mgrs[m]) = ModeTable(mgrs[m].use_multiprocessing, mgrs[m].arg_queue # None)

\* C6 witness: a UnifiedLogger owner that has stopped, and a UnifiedLogger
\* constructed with use_multiprocessing false and that owner's queue.
C6_Witness ==
    \E m1, m2 \in MgrIds :
       /\ mgrs[m1].cls = "UnifiedLogger" /\ mgrs[m1].stopped
       /\ GetMode(mgrs[m1]) = MULTI_PROCESS_MAIN
       /\ mgrs[m2].cls = "UnifiedLogger" /\ ~mgrs[m2].use_multiprocessing
       /\ mgrs[m2].arg_queue = mgrs[m1].log_queue
       /\ GetMode(mgrs[m2]) = SINGLE_PROCESS

\* C7: a manager in the worker role has no handler chain (it opened no sink
\* file), has no listener and wrote no line to a sink.
C7_WorkerTouchesNoSink ==
    \A m \in MgrIds : WorkerRole(mgrs[m]) =>
       /\ mgrs[m].handlers = <<>>
       /\ mgrs[m].listener = None
       /\ \A s \in SinkIds : \A i \in 1..Len(sinks[s]) : sinks[s][i].by # m

\* C8: a facade last bound by a manager in a multi-process role holds one
\* handler, a queue handler on that manager's queue, and every line written
\* for a record emitted through such a facade came through that queue.
C8_QueueBindingOnly ==
    /\ \A p \in Procs : \A n \in Names :
          LET f == registry[p][n]
          IN  (f.exists /\ MultiRole(mgrs[f.boundBy])) =>
                 /\ Len(f.handlers) = 1
                 /\ f.handlers[1].kind = "queue"
                 /\ f.handlers[1].target = mgrs[f.boundBy].log_queue
    /\ \A s \in SinkIds : \A i \in 1..Len(sinks[s]) :
          LET r == emitted[sinks[s][i].id]
          IN  MultiRole(mgrs[r.mgr]) => sinks[s][i].src[1] = mgrs[r.mgr].log_queue

\* C8 witness: a facade bound first by the owner and then by a worker of the
\* same process, with a record of each delivered by the listener.
C8_Witness ==
    \E p \in Procs : \E n \in Names :
       LET f == registry[p][n]
       IN  /\ f.exists
           /\ WorkerRole(mgrs[f.boundBy])
           /\ \E s \in SinkIds : \E i, j \in 1..Len(sinks[s]) :
                 /\ OwnerRole(mgrs[emitted[sinks[s][i].id].mgr])
                 /\ emitted[sinks[s][j].id].mgr = f.boundBy
                 /\ emitted[sinks[s][i].id].proc = p
                 /\ emitted[sinks[s][j].id].proc = p

\* C9: a facade last bound by a single-process manager holds exactly that
\* manager's handlers, each once, and a record emitted through such a facade
\* has one line in the sink of each handler that admits it and none elsewhere.
C9_BindingIdempotent ==
    /\ \A p \in Procs : \A n \in Names :
          LET f == registry[p][n]
          IN  (f.exists /\ SingleRole(mgrs[f.boundBy])) =>
                 /\ f.handlers = mgrs[f.boundBy].handlers
                 /\ Cardinality(Range(f.handlers)) = Len(f.handlers)
    /\ \A id \in 1..Len(emitted) :
          LET r == emitted[id]
          IN  SingleRole(mgrs[r.mgr]) =>
                 \A s \in SinkIds :
                    Cardinality(LinesOf(s, id)) =
                       IF r.enabled /\ \E h \in Range(mgrs[r.mgr].handlers) :
                                          h.target = s /\ r.level >= h.level
                       THEN 1 ELSE 0

\* C9 witness: a facade bound by one single-process manager and then by a
\* second one of the same process, with a record emitted after each binding.
C9_Witness ==
    \E p \in Procs : \E n \in Names :
       LET f == registry[p][n]
       IN  /\ f.exists
           /\ SingleRole(mgrs[f.boundBy])
           /\ \E i, j \in 1..Len(emitted) :
                 /\ i < j
                 /\ emitted[i].proc = p /\ emitted[j].proc = p
                 /\ emitted[i].mgr # f.boundBy /\ SingleRole(mgrs[emitted[i].mgr])
                 /\ emitted[j].mgr = f.boundBy
                 /\ Cardinality(LinesOf(1, j)) = 1

\* C10: no sink holds a line of a record whose level is below the threshold
\* the configuration gives the sink's handler.
C10_ThresholdRespected ==
    \A s \in SinkIds : \A i \in 1..Len(sinks[s]) :
       emitted[sinks[s][i].id].level >= ConfigThreshold(s)

\* C10 witness: DEBUG records were written to the DEBUG sink both directly
\* and by a listener, and the WARNING sink stayed empty.
C10_Witness ==
    /\ sinks[2] = <<>>
    /\ \E i, j \in 1..Len(sinks[1]) :
          /\ sinks[1][i].src[1] = 0 /\ emitted[sinks[1][i].id].level = DEBUG
          /\ sinks[1][j].src[1] # 0 /\ emitted[sinks[1][j].id].level = DEBUG

\* C11: a log call whose level is below the level of the facade it is made
\* on changes no queue and no sink: nothing is enqueued, no handler is
\* called, nothing is reported as dropped.
C11_BelowLevelDropped ==
    [][\A p \in Procs : \A n \in Names : \A level \in EmitLevels :
         (Emit(p, n, level) /\ level < registry[p][n].level)
         => UNCHANGED <<queues, arrivals, sinks, dropped>>]_vars

\* C11 witness: a DEBUG call on a facade at INFO bound to a queue left no
\* trace, and a WARNING call on the same facade was written by the listener.
C11_Witness ==
    \E i, j \in 1..Len(emitted) :
       /\ emitted[i].level = DEBUG /\ emitted[j].level = WARNING
       /\ emitted[i].name = emitted[j].name /\ emitted[i].proc = emitted[j].proc
       /\ registry[emitted[i].proc][emitted[i].name].level = INFO
       /\ \A s \in SinkIds : LinesOf(s, i) = {}
       /\ \A q \in QueueIds : \A k \in 1..Len(arrivals[q]) : arrivals[q][k].id # i
       /\ \E x \in LinesOf(2, j) : sinks[2][x].src[1] # 0

\* C13: a record that passed the facade's level in multi-process mode is
\* placed in the queue (the call waits for room when the queue is full) and
\* is never dropped or reported as an error.
C13_FullQueueNeverDrops ==
    /\ dropped = {}
    /\ \A id \in 1..Len(emitted) :
          (emitted[id].enabled /\ MultiRole(mgrs[emitted[id].mgr]))
          => \E q \in QueueIds : \E k \in 1..Len(arrivals[q]) : arrivals[q][k].id = id

\* C14: no stop() of an owner ends by raising instead of returning with the
\* sentinel enqueued, whatever the queue_size.
C14_StopNeverRaises == \A m \in MgrIds : ~mgrs[m].stopRaised

\* the handler types _create_handler knows
C17_Types == {"stream", "file", "rotating_file", "timed_rotating_file"}

\* the entries of the configuration with a known type, in configuration order
C17_Expected == SelectSeq(HandlersConfig, LAMBDA hc : hc.type \in C17_Types)

C17_IsExpected(hs) ==
    /\ Len(hs) = Len(C17_Expected)
    /\ \A i \in 1..Len(hs) :
          /\ hs[i].kind = C17_Expected[i].type
          /\ hs[i].target = C17_Expected[i].sink
          /\ hs[i].level = C17_Expected[i].level

\* C17: the handler chain of every manager that built one is the entries of
\* a known type in configuration order (the unknown entry is skipped), and
\* an owner still got its queue and a listener on that chain.
C17_UnknownTypeSkipped ==
    /\ \A m \in MgrIds : mgrs[m].handlers # <<>> => C17_IsExpected(mgrs[m].handlers)
    /\ \A m \in MgrIds : (SingleRole(mgrs[m]) \/ OwnerRole(mgrs[m])) => mgrs[m].handlers # <<>>
    /\ \A m \in MgrIds : OwnerRole(mgrs[m]) =>
          /\ mgrs[m].log_queue # None
          /\ \E l \in ListenersOn(mgrs[m].log_queue) : C17_IsExpected(listeners[l].handlers)

\* C17 witness: an owner built from the configuration with the unknown entry
\* in the middle, whose listener wrote a record to the sink of the entry
\* after it.
C17_Witness ==
    /\ \E i \in 1..Len(HandlersConfig) : HandlersConfig[i].type \notin C17_Types
    /\ \E m \in MgrIds :
          /\ OwnerRole(mgrs[m])
          /\ \E i \in 1..Len(sinks[2]) : sinks[2][i].src[1] = mgrs[m].log_queue

\* the phase of a listener: 1 running (started, no sentinel enqueued yet),
\* 2 stopping (sentinel enqueued, thread alive), 3 stopped (thread ended)
ListenerPhase(ls, arr, l) ==
    IF ~ls[l].alive THEN 3
    ELSE IF Sentinel \in Range(arr[ls[l].queue]) THEN 2
    ELSE 1

\* the sentinel of queue q has been taken out of the queue
SentinelConsumed(q) == Consumed(q) >= FirstSentinel(q)

\* C15: a listener is running from its creation until a sentinel is
\* enqueued, has ended once it has taken the sentinel and when the owner's
\* stop() has returned; its phase never goes back, no step replaces it or
\* changes its queue or handlers, and no queue gets a second listener.
C15_ListenerForwardOnly ==
    /\ [](\A l \in ListenerIds :
            /\ listeners[l].alive <=> ~SentinelConsumed(listeners[l].queue)
            /\ StopReturned(listeners[l].queue) => ListenerPhase(listeners, arrivals, l) = 3
            /\ Cardinality(ListenersOn(listeners[l].queue)) = 1)
    /\ [][\A l \in ListenerIds :
            /\ ListenerPhase(listeners', arrivals', l) >= ListenerPhase(listeners, arrivals, l)
            /\ listeners'[l].queue = listeners[l].queue
            /\ listeners'[l].handlers = listeners[l].handlers]_vars

\* C15 witness: after the owner's stop() returned, a record was enqueued
\* behind the sentinel through a facade bound again by get_logger, and a
\* further stop() returned; the listener is stopped.
C15_Witness ==
    \E l \in ListenerIds :
       LET q == listeners[l].queue
       IN  /\ ListenerPhase(listeners, arrivals, l) = 3
           /\ queues[q].creator \in noopStops
           /\ Len(arrivals[q]) > FirstSentinel(q)
           /\ queues[q].items # <<>>

\* C19: once the owner's stop() has returned, its listener has ended, its
\* queue is closed and the files of its handler chain are closed.
C19_AllReleased ==
    \A m \in MgrIds : mgrs[m].stopped =>
       /\ \A l \in ListenersOn(mgrs[m].log_queue) : ~listeners[l].alive
       /\ queues[mgrs[m].log_queue].closed
       /\ \A i \in 1..Len(mgrs[m].handlers) : ~mgrs[m].handlers[i].open

\* C12: every get_logger(name, level) leaves the facade with the level of
\* root.level when the key is present and with the level argument when it
\* is not, and with propagate of root.propagate, False when that key is not
\* present.
C12_LevelAndPropagateFromRoot ==
    [][\A m \in MgrIds : \A n \in Names : \A level \in BindLevels :
         GetLogger(m, n, level) =>
            LET f == registry'[mgrs[m].proc][n]
            IN  /\ f.level = IF "level" \in DOMAIN config.root
                              THEN config.root["level"] ELSE level
                /\ f.propagate = IF "propagate" \in DOMAIN config.root
                                  THEN config.root["propagate"] ELSE FALSE]_vars

\* C12 witness: with root.level WARNING and root.propagate true, a facade
\* stands at WARNING with propagate set and has refused a DEBUG call.
C12_Witness ==
    /\ DOMAIN config.root = {"level", "propagate"}
    /\ config.root["level"] = WARNING /\ config.root["propagate"]
    /\ \E p \in Procs : \E n \in Names :
          /\ registry[p][n].exists
          /\ registry[p][n].level = WARNING
          /\ registry[p][n].propagate
          /\ \E id \in 1..Len(emitted) :
                emitted[id].proc = p /\ emitted[id].level = DEBUG /\ ~emitted[id].enabled

\* the configuration file cannot be loaded
C16_Unloadable == ~config.exists \/ Lower(config.suffix) \notin {".yaml", ".yml", ".json"}

\* C16: with a configuration file that cannot be loaded no manager, handler,
\* queue or listener ever exists; every constructor call raised before
\* _setup_handlers and _setup_multiprocessing ran, FileNotFoundError for a
\* path that does not exist whatever its suffix and ValueError for an
\* existing file of another suffix; and no constructor raises otherwise.
C16_LoadFailureCreatesNothing ==
    /\ C16_Unloadable =>
          /\ mgrs = <<>> /\ queues = <<>> /\ listeners = <<>>
          /\ \A s \in SinkIds : sinks[s] = <<>>
    /\ \A r \in raised : r.op \in Ctors =>
          /\ C16_Unloadable
          /\ r.done \cap {"_setup_handlers", "_setup_multiprocessing"} = {}
          /\ r.error = IF ~config.exists THEN "FileNotFoundError" ELSE "ValueError"

\* C16 witness: every way to construct a manager has raised for a path that
\* does not exist and has an unsupported suffix.
C16_Witness ==
    /\ ~config.exists /\ config.suffix = ".txt"
    /\ \A ctor \in Ctors : \E r \in raised : r.op = ctor /\ r.error = "FileNotFoundError"

\* C18: with a sink that cannot be written, every record the listener took
\* from a queue has its one line in the sink of each other handler that
\* admits it (and a report, no line, for the failing one); the listener
\* thread lives until it takes the sentinel; a record logged in
\* single-process mode likewise has its line in every other admitting
\* handler's sink; and no log call raised.
C18_WriteFailureIsolated ==
    /\ \A q \in QueueIds : \A l \in ListenersOn(q) :
          /\ listeners[l].alive <=> ~SentinelConsumed(q)
          /\ \A k \in BeforeSentinel(q) \cap (1..Consumed(q)) :
                \A hi \in 1..Len(listeners[l].handlers) :
                   LET h == listeners[l].handlers[hi]
                       rec == arrivals[q][k]
                       n == Cardinality(Deliveries(h.target, q, k))
                   IN  rec.level >= h.level =>
                          IF h.target \in broken
                          THEN n = 0 /\ <<rec.id, h.target>> \in stderr
                          ELSE n = 1
    /\ \A id \in 1..Len(emitted) :
          LET r == emitted[id]
          IN  (r.enabled /\ SingleRole(mgrs[r.mgr])) =>
                 \A hi \in 1..Len(mgrs[r.mgr].handlers) :
                    LET h == mgrs[r.mgr].handlers[hi]
                    IN  r.level >= h.level =>
                           IF h.target \in broken
                           THEN LinesOf(h.target, id) = {} /\ <<id, h.target>> \in stderr
                           ELSE Cardinality(LinesOf(h.target, id)) = 1
    /\ \A r \in raised : r.op # "log"

\* C18 witness: the first handler's sink is broken; the listener has taken
\* two WARNING records, reported two failures and written both to the sink
\* of the second handler.
C18_Witness ==
    /\ broken = {1}
    /\ \E q \in QueueIds :
          /\ Consumed(q) = MaxEmit
          /\ \A k \in 1..Consumed(q) :
                /\ arrivals[q][k].level = WARNING
                /\ <<arrivals[q][k].id, 1>> \in stderr
                /\ Cardinality(Deliveries(2, q, k)) = 1

FilesOnDisk == {i \in FileIndexes : disk.files[i] # Absent}

\* C23 (as stated): a rotating_file handler never has more than
\* backup_count + 1 files, and with max_bytes 100 and backup_count 2, once
\* more than 300 bytes have been written there are exactly 3 files.
C23_ThreeFilesAfter300Bytes ==
    (disk.maxBytes > 0 /\ disk.backupCount > 0) =>
       /\ Cardinality(FilesOnDisk) <= disk.backupCount + 1
       /\ (disk.maxBytes = 100 /\ disk.backupCount = 2 /\ disk.written > 300)
          => Cardinality(FilesOnDisk) = 3

\* C23 (amended): a rotating_file handler with max_bytes M > 0 and
\* backup_count N > 0 only has the files name, name.1 .. name.N; a rotation
\* moves the base file to name.1 and each name.i to name.(i+1), what was
\* name.N is gone, and the line goes to a new base file; and once more than
\* (N + 1) * M bytes have been written in lines of at most M bytes each, all
\* N + 1 files exist (3 files for M = 100, N = 2 and more than 300 bytes).
C23_RotationKeepsNPlusOne ==
    /\ []((disk.maxBytes > 0 /\ disk.backupCount > 0) =>
            /\ FilesOnDisk \subseteq 0..disk.backupCount
            /\ (/\ disk.longest <= disk.maxBytes
                /\ disk.written > (disk.backupCount + 1) * disk.maxBytes)
               => FilesOnDisk = 0..disk.backupCount)
    /\ [][\A len \in LineLengths :
            (/\ RotatingEmit(len)
             /\ disk.backupCount > 0
             /\ disk.files[0] + len >= disk.maxBytes)
            => /\ \A i \in 0..(disk.backupCount - 1) : disk'.files[i + 1] = disk.files[i]
               /\ disk'.files[0] = len
               /\ \A i \in FileIndexes : i > disk.backupCount => disk'.files[i] = Absent]_vars

\* C23 witness: with max_bytes 100 and backup_count 2, more than 300 bytes
\* were written in lines of at most 100 bytes; the three files exist and
\* hold less than was written (the oldest content is gone).
C23_Witness ==
    /\ disk.maxBytes = 100 /\ disk.backupCount = 2
    /\ disk.longest <= 100 /\ disk.written > 300
    /\ FilesOnDisk = {0, 1, 2}
    /\ disk.files[0] + disk.files[1] + disk.files[2] < disk.written

C22_SingleProcessHasNoQueue ==
    /\ [](\A m \in MgrIds :
            /\ SingleRole(mgrs[m]) =>
                  /\ mgrs[m].listener = None
                  /\ HasGetQueue(mgrs[m]) => GetQueue(mgrs[m]) = None
            /\ (OwnerRole(mgrs[m]) /\ HasGetQueue(mgrs[m])) =>
                  /\ GetQueue(mgrs[m]) \in QueueIds
                  /\ queues[GetQueue(mgrs[m])].creator = m
            /\ (WorkerRole(mgrs[m]) /\ HasGetQueue(mgrs[m])) =>
                  GetQueue(mgrs[m]) = mgrs[m].arg_queue)
    /\ [][\A m \in MgrIds :
            (SingleRole(mgrs[m]) /\ StopOps(m))
            => UNCHANGED <<mgrs, queues, listeners, registry, sinks, arrivals>>]_vars

\* C22 witness: a UnifiedLogger constructed with use_multiprocessing false
\* and the queue of an owner has returned from stop(); the owner, a
\* UnifiedLogger too, has stopped and a record of the former stands in a
\* sink, written directly.
C22_Witness ==
    \E m1, m2 \in MgrIds :
       /\ mgrs[m1].cls = "UnifiedLogger" /\ OwnerRole(mgrs[m1]) /\ mgrs[m1].stopped
       /\ GetQueue(mgrs[m1]) = mgrs[m1].log_queue
       /\ mgrs[m2].cls = "UnifiedLogger" /\ SingleRole(mgrs[m2])
       /\ mgrs[m2].arg_queue = mgrs[m1].log_queue
       /\ GetQueue(mgrs[m2]) = None
       /\ m2 \in noopStops
       /\ \E i \in 1..Len(sinks[1]) : sinks[1][i].by = m2 /\ sinks[1][i].src[1] = 0

\* the arrival indexes of queue q at which a sentinel stands
SentinelsIn(arr, q) == {k \in 1..Len(arr[q]) : arr[q][k] = Sentinel}

C27_UnifiedWorkerEmpty ==
    /\ \A m \in MgrIds :
          (mgrs[m].cls = "UnifiedLogger" /\ GetMode(mgrs[m]) = MULTI_PROCESS_WORKER) =>
             /\ mgrs[m].handlers = <<>>
             /\ mgrs[m].listener = None
             /\ \A q \in QueueIds : queues[q].creator # m
             /\ \A l \in ListenerIds : \A i \in 1..Len(listeners[l].handlers) :
                   listeners[l].handlers[i].mgr # m
    /\ \A p \in Procs : \A n \in Names :
          LET f == registry[p][n]
          IN  (/\ f.exists
               /\ mgrs[f.boundBy].cls = "UnifiedLogger"
               /\ GetMode(mgrs[f.boundBy]) = MULTI_PROCESS_WORKER) =>
                 /\ Len(f.handlers) = 1
                 /\ f.handlers[1].kind = "queue"
                 /\ f.handlers[1].target = mgrs[f.boundBy].arg_queue

\* C27 witness: a UnifiedLogger worker of process 2 on the queue of a
\* UnifiedLogger owner of process 1 has bound a facade, a record logged
\* through it was written by the owner's listener, and the worker has
\* returned from stop().
C27_Witness ==
    \E m1, m2 \in MgrIds :
       /\ mgrs[m1].cls = "UnifiedLogger" /\ GetMode(mgrs[m1]) = MULTI_PROCESS_MAIN
       /\ mgrs[m1].proc = 1
       /\ mgrs[m2].cls = "UnifiedLogger" /\ GetMode(mgrs[m2]) = MULTI_PROCESS_WORKER
       /\ mgrs[m2].proc = 2
       /\ mgrs[m2].arg_queue = mgrs[m1].log_queue
       /\ m2 \in noopStops
       /\ \E i \in 1..Len(sinks[1]) :
             /\ emitted[sinks[1][i].id].mgr = m2
             /\ sinks[1][i].by = m1

\* C30: there is one facade per process and name, whichever manager asks
\* for it: get_logger of manager m leaves the facade of that name bound to
\* m's target alone (m's queue in a multi-process role, m's handler chain
\* otherwise) and touches no other facade; and a log call through a name
\* reaches only the target of the manager that bound the name last: it
\* changes no queue but that manager's, or no queue at all and only sinks by
\* handlers of that manager's chain.
C30_LastBinderTakesAll ==
    /\ [][\A m \in MgrIds : \A n \in Names : \A level \in ArgLevels :
            GetLogger(m, n, level) =>
               LET f == registry'[mgrs[m].proc][n]
               IN  /\ f.boundBy = m
                   /\ IF MultiRole(mgrs[m])
                      THEN /\ Len(f.handlers) = 1
                           /\ f.handlers[1].kind = "queue"
                           /\ f.handlers[1].target = mgrs[m].log_queue
                      ELSE f.handlers = mgrs[m].handlers
                   /\ \A p \in Procs : \A n2 \in LoggerNames :
                         <<p, n2>> # <<mgrs[m].proc, n>> => registry'[p][n2] = registry[p][n2]]_vars
    /\ [][\A p \in Procs : \A n \in Names : \A level \in EmitLevels :
            Emit(p, n, level) =>
               LET m == registry[p][n].boundBy
               IN  IF MultiRole(mgrs[m])
                   THEN /\ sinks' = sinks
                        /\ \A q \in QueueIds : q # mgrs[m].log_queue =>
                              queues'[q] = queues[q] /\ arrivals'[q] = arrivals[q]
                   ELSE /\ queues' = queues /\ arrivals' = arrivals
                        /\ \A s \in SinkIds : \A i \in 1..Len(sinks'[s]) :
                              i > Len(sinks[s]) => sinks'[s][i].by = m]_vars

\* C30 witness: in one process the name was bound by an owner and then by a
\* single-process manager; the record logged after the first binding went
\* into the owner's queue, the one logged after the second was written
\* directly by the second manager's handler and did not enter the queue.
C30_Witness ==
    \E m1, m2 \in MgrIds : \E i, j \in 1..Len(emitted) :
       /\ OwnerRole(mgrs[m1]) /\ SingleRole(mgrs[m2])
       /\ mgrs[m1].proc = mgrs[m2].proc
       /\ i < j /\ emitted[i].name = emitted[j].name
       /\ emitted[i].proc = mgrs[m1].proc /\ emitted[j].proc = mgrs[m1].proc
       /\ emitted[i].mgr = m1 /\ emitted[j].mgr = m2
       /\ \E k \in 1..Len(arrivals[mgrs[m1].log_queue]) : arrivals[mgrs[m1].log_queue][k].id = i
       /\ \A k \in 1..Len(arrivals[mgrs[m1].log_queue]) : arrivals[mgrs[m1].log_queue][k].id # j
       /\ \E x \in LinesOf(1, j) : sinks[1][x].by = m2 /\ sinks[1][x].src[1] = 0

\* C28: once the owner's stop() on a queue has returned, a log call that
\* passes the level of a facade bound to that queue appends its record to
\* the queue and nothing is dropped, reported or raised; the record stays in
\* the queue: no line is ever written for an item that arrived after the
\* sentinel, and the queue gets no new listener.
C28_AfterStopEnqueuedNotDelivered ==
    /\ [][\A p \in Procs : \A n \in Names : \A level \in EmitLevels :
            (/\ Emit(p, n, level)
             /\ MultiRole(mgrs[registry[p][n].boundBy])
             /\ StopReturned(mgrs[registry[p][n].boundBy].log_queue)
             /\ level >= registry[p][n].level) =>
               LET q == mgrs[registry[p][n].boundBy].log_queue
               IN  /\ arrivals'[q] = Append(arrivals[q], emitted'[Len(emitted')])
                   /\ queues'[q].items = Append(queues[q].items, emitted'[Len(emitted')])
                   /\ dropped' = dropped
                   /\ stderr' = stderr
                   /\ raised' = raised]_vars
    /\ [](\A q \in QueueIds : StopReturned(q) =>
            /\ \A l \in ListenersOn(q) : ~listeners[l].alive
            /\ \A s \in SinkIds : \A k \in 1..Len(arrivals[q]) :
                  k > FirstSentinel(q) => Deliveries(s, q, k) = {})
    /\ [][\A q \in QueueIds : StopReturned(q) =>
            /\ IsPrefix(queues[q].items, queues'[q].items)
            /\ {l \in 1..Len(listeners') : listeners'[l].queue = q} = ListenersOn(q)]_vars

\* a facade of process p is bound to manager m
FacadeOf(m) == \E p \in Procs : \E n \in Names : registry[p][n].exists /\ registry[p][n].boundBy = m

\* C25: while a facade obtained from the owner exists, the step that puts
\* the first sentinel into the owner's queue, and so stops its listener, is
\* an explicit stop() of the owner or the exit of its with block:
\* finalization of the manager leaves queues and listeners as they are.
C25_OnlyExplicitStopEndsListener ==
    /\ [][\A q \in QueueIds :
            (/\ FacadeOf(queues[q].creator)
             /\ Sentinel \notin Range(arrivals[q])
             /\ Sentinel \in Range(arrivals'[q])) =>
               \E m \in MgrIds :
                  /\ queues[q].creator = m
                  /\ StopCall(m) \/ \E exc \in BOOLEAN : WithExit(m, exc)]_vars
    /\ [][\A m \in MgrIds :
            (FacadeOf(m) /\ Finalize(m)) => UNCHANGED <<queues, arrivals, listeners>>]_vars

\* C29: no stop() run by the finalizer of an instance whose constructor
\* raised in _load_config raises (the attributes stop() reads were assigned
\* before _load_config was called).
C29_StopOnFailedInitSilent == \A r \in raised : r.error # "AttributeError"

\* ---------------------------------------------------------------------------
\* C32: once its constructor has returned, a manager's listener attribute is
\* set exactly when the manager holds the ownership token and no stop() call
\* of it has run to its end; a worker's and a single-process manager's
\* listener attribute is never set.
C32_ListenerIffOwnerNotStopped ==
    \A m \in MgrIds :
        /\ (mgrs[m].listener # None) <=> (Token(mgrs[m]) /\ ~mgrs[m].stopped)
        /\ (WorkerRole(mgrs[m]) \/ SingleRole(mgrs[m])) => mgrs[m].listener = None
        /\ mgrs[m].listener # None => /\ mgrs[m].listener \in ListenerIds
                                      /\ listeners[mgrs[m].listener].queue = mgrs[m].log_queue

\* one owner has stopped and lost its listener while a second owner is
\* still inside stop(), waiting in the join with its listener set
C32_Witness ==
    \E m1, m2 \in MgrIds :
        /\ Token(mgrs[m1]) /\ mgrs[m1].stopped /\ mgrs[m1].listener = None
        /\ Token(mgrs[m2]) /\ mgrs[m2].pc = "joining" /\ mgrs[m2].listener # None

\* ------------------------------------------- owners with every queue size
\* The queue_size argument of the owning constructors: the default -1,
\* another negative number, zero, and two positive capacities.
SizeArgs == {-2, UnboundedSize, 0, 1, 2}

InitSize ==
    /\ config = TestConfig
    /\ broken = {}
    /\ Fresh

NextSize ==
    \/ \E qs \in SizeArgs : ConstructLogger(1, TRUE, None, qs)
    \/ \E qs \in SizeArgs : ConstructUnified(1, TRUE, None, qs)
    \/ \E qs \in SizeArgs : ConstructMulti(1, qs)
    \/ \E m \in 1..Len(mgrs), name \in Names, level \in ArgLevels : GetLogger(m, name, level)
    \/ \E name \in Names, level \in EmitLevels : Emit(1, name, level)
    \/ \E l \in 1..Len(listeners) : ListenerStep(l)
    \/ \E m \in 1..Len(mgrs) : StopCall(m)
    \/ \E m \in 1..Len(mgrs) : StopJoin(m)

SpecSize == InitSize /\ [][NextSize]_vars

\* the put_nowait calls of a step that were refused with queue.Full: the
\* records newly dropped by a QueueHandler bound to queue q, and the
\* sentinel of a stop() call on q that raised
RefusedOn(q) ==
    \/ \E id \in dropped' \ dropped : mgrs[emitted'[id].mgr].log_queue = q
    \/ \E m \in MgrIds : /\ mgrs'[m].stopRaised /\ ~mgrs[m].stopRaised
                         /\ mgrs[m].log_queue = q

\* a queue of capacity cap (None: unbounded) over one step: an item is
\* appended only while it holds fewer than cap items, and a put is refused
\* only when it holds exactly cap
HasCapacity(q, cap) ==
    IF cap = None
    THEN ~RefusedOn(q)
    ELSE /\ Len(arrivals'[q]) > Len(arrivals[q]) => Len(queues[q].items) < cap
         /\ RefusedOn(q) => Len(queues[q].items) = cap

\* C38 as stated: the owner's queue is unbounded exactly when queue_size is
\* -1; for every other queue_size q it is bounded with capacity q.
C38_UnboundedOnlyForMinusOne ==
    [][\A q \in QueueIds :
          HasCapacity(q, IF queues[q].queue_size = UnboundedSize THEN None
                         ELSE queues[q].queue_size)]_vars

\* C38 (amended): the owner's queue is unbounded exactly when queue_size is
\* zero or negative (the default -1 included); for every positive queue_size
\* q it is bounded with capacity q.
C38_UnboundedUnlessPositive ==
    [][\A q \in QueueIds :
          HasCapacity(q, IF queues[q].queue_size <= 0 THEN None
                         ELSE queues[q].queue_size)]_vars

\* a queue asked for with queue_size 2 holds two records and has refused
\* the sentinel of stop(), while a queue asked for with queue_size 0 holds a
\* record
C38_Witness ==
    \E q1, q2 \in QueueIds :
        /\ queues[q1].queue_size = 2 /\ Len(queues[q1].items) = 2
        /\ mgrs[queues[q1].creator].stopRaised
        /\ queues[q2].queue_size = 0 /\ Len(queues[q2].items) = 1

\* --------------------------------------- a name and its dotted descendant
\* One process, managers of every role, facades "a" and "a.b";
\* root.propagate false (the test configuration) or true.
HierarchyNames == {<<"a">>, <<"a", "b">>}

PropagateConfigs ==
    { TestConfig,
      ConfigFile(TRUE, ".yaml", [level |-> DEBUG, propagate |-> TRUE]) }

InitHierarchy ==
    /\ config \in PropagateConfigs
    /\ broken = {}
    /\ Fresh

NextHierarchy ==
    \/ \E use_mp \in BOOLEAN : ConstructLogger(1, use_mp, None, UnboundedSize)
    \/ \E use_mp \in BOOLEAN : ConstructUnified(1, use_mp, None, UnboundedSize)
    \/ ConstructSingle(1)
    \/ ConstructMulti(1, UnboundedSize)
    \/ \E m \in 1..Len(mgrs), name \in HierarchyNames, level \in ArgLevels :
          GetLogger(m, name, level)
    \/ \E name \in HierarchyNames, level \in EmitLevels : Emit(1, name, level)
    \/ \E l \in 1..Len(listeners) : ListenerStep(l)

SpecHierarchy == InitHierarchy /\ [][NextHierarchy]_vars

\* C31: when one manager has bound the facades "a" and "a.b", a log call
\* through "a.b" that passes the facade's level appends exactly one line to
\* the sink of every handler that admits it (single-process mode), or exactly
\* one item to the manager's queue (multi-process mode), whatever
\* root.propagate is.
C31_OncePerRecordWithPropagate ==
    [][\A level \in EmitLevels :
          LET child == registry[1][<<"a", "b">>]
              parent == registry[1][<<"a">>]
          IN  ( /\ Emit(1, <<"a", "b">>, level)
                /\ parent.exists
                /\ parent.boundBy = child.boundBy
                /\ level >= child.level ) =>
                 LET mgr == mgrs[child.boundBy]
                 IN  IF MultiRole(mgr)
                     THEN Len(arrivals'[mgr.log_queue]) = Len(arrivals[mgr.log_queue]) + 1
                     ELSE \A s \in SinkIds :
                             Len(sinks'[s]) - Len(sinks[s]) =
                                IF \E i \in 1..Len(mgr.handlers) :
                                      /\ mgr.handlers[i].target = s
                                      /\ level >= mgr.handlers[i].level
                                THEN 1 ELSE 0]_vars

\* ------------------------------------ a handler that cannot be created
\* A level name the logging module does not define (getattr raises).
InvalidLevel == -1

\* the numbers getattr(logging, level.upper()) finds
ValidLevels == {NOTSET, DEBUG, INFO, WARNING, ERROR, CRITICAL}

\* the handlers section of a configuration file; the files of the other
\* runs carry HandlersConfig
HandlersOf(file) == DictGet(file, "handlers", HandlersConfig)

\* a file whose second handler has an unknown level name, and one whose
\* second handler names a file that cannot be opened (no such directory)
BadHandlerConfigs ==
    { [exists |-> TRUE, suffix |-> ".json", root |-> [level |-> DEBUG, propagate |-> FALSE],
       handlers |-> << [type |-> "file", level |-> DEBUG, sink |-> 1],
                       [type |-> "file", level |-> InvalidLevel, sink |-> 2] >>],
      [exists |-> TRUE, suffix |-> ".json", root |-> [level |-> DEBUG, propagate |-> FALSE],
       handlers |-> << [type |-> "file", level |-> DEBUG, sink |-> 1],
                       [type |-> "file", level |-> WARNING, sink |-> 3] >>] }

\* _create_handler: the exception it raises, "ok" when it returns.  An entry
\* of an unrecognized type returns None before anything can fail; a file
\* handler opens its file when it is created, and the level is set after.
CreateHandlerError(hc) ==
    IF hc.type \notin RecognizedTypes THEN "ok"
    ELSE IF hc.type # "stream" /\ hc.sink \notin SinkIds THEN "FileNotFoundError"
    ELSE IF hc.level \notin ValidLevels THEN "AttributeError"
    ELSE "ok"

\* _setup_handlers: the first exception of the loop over the entries
RECURSIVE SetupHandlersError(_)
SetupHandlersError(entries) ==
    IF entries = <<>> THEN "ok"
    ELSE IF CreateHandlerError(Head(entries)) # "ok" THEN CreateHandlerError(Head(entries))
    ELSE SetupHandlersError(Tail(entries))

\* A constructor call that ends in _setup_handlers raising (UnifiedLogger:
\* outside the worker mode, where _setup_handlers returns at once).  The
\* statements before it have run: if _setup_multiprocessing is one of them
\* the queue and the started listener exist when the exception leaves.
ConstructRaisesInHandlers(ctor) ==
    /\ LoadConfig(config) = "ok"
    /\ SetupHandlersError(HandlersOf(config)) # "ok"
    /\ LET done == StepsBefore(InitOrder(ctor), "_setup_handlers")
       IN  /\ raised' = raised \cup {[op |-> ctor,
                                      error |-> SetupHandlersError(HandlersOf(config)),
                                      done |-> done]}
           /\ IF "_setup_multiprocessing" \in done
              THEN SetupMultiprocessing(UnboundedSize, <<>>)
              ELSE UNCHANGED <<queues, arrivals, listeners>>
    /\ UNCHANGED <<config, broken, disk, singleton, calls, scope, mgrs, registry, sinks, emitted, dropped,
                   noopStops, stderr>>

\* the handlers section can be built
HandlersLoad == SetupHandlersError(HandlersOf(config)) = "ok"

InitHandlerFail ==
    /\ config \in {TestConfig} \cup BadHandlerConfigs
    /\ broken = {}
    /\ Fresh

NextHandlerFail ==
    \/ \E ctor \in Ctors : ConstructRaisesInHandlers(ctor)
    \/ \E p \in Procs, use_mp \in BOOLEAN, lq \in QueueArgs, qs \in QueueSizes :
          HandlersLoad /\ ConstructLogger(p, use_mp, lq, qs)
    \/ \E p \in Procs, use_mp \in BOOLEAN, lq \in QueueArgs, qs \in QueueSizes :
          HandlersLoad /\ ConstructUnified(p, use_mp, lq, qs)
    \/ \E p \in Procs : HandlersLoad /\ ConstructSingle(p)
    \/ \E p \in Procs, qs \in QueueSizes : HandlersLoad /\ ConstructMulti(p, qs)
    \/ \E p \in Procs, lq \in 1..Len(queues) : HandlersLoad /\ FromQueue(p, lq)
    \/ \E m \in 1..Len(mgrs), name \in Names, level \in ArgLevels : GetLogger(m, name, level)
    \/ \E p \in Procs, name \in Names, level \in EmitLevels : Emit(p, name, level)
    \/ \E l \in 1..Len(listeners) : ListenerStep(l)

SpecHandlerFail == InitHandlerFail /\ [][NextHandlerFail]_vars

\* C33: when the creation of a handler raises during construction, the
\* constructor fails with neither a queue nor a listener created: the
\* statements that ran do not include _setup_multiprocessing, the failing
\* call leaves queues and listeners as they were, and with such a
\* configuration no queue, no listener and no manager ever exists.
C33_HandlerFailureLeavesNoListener ==
    /\ [](\A r \in raised : "_load_config" \in r.done =>
             /\ r.error \in {"AttributeError", "FileNotFoundError"}
             /\ "_setup_multiprocessing" \notin r.done)
    /\ [](~HandlersLoad => queues = <<>> /\ listeners = <<>> /\ mgrs = <<>>)
    /\ [][\A ctor \in Ctors :
            ConstructRaisesInHandlers(ctor) => UNCHANGED <<mgrs, queues, listeners>>]_vars

\* the constructors of Logger and MultiProcessLogger have both failed on the
\* unknown level name, after the configuration was loaded
C33_Witness ==
    /\ \E r \in raised : /\ r.op = "Logger" /\ r.error = "AttributeError"
                         /\ "_load_config" \in r.done
    /\ \E r \in raised : r.op = "MultiProcessLogger" /\ r.error = "AttributeError"
    /\ listeners = <<>>

\* ------------------------------- get_logger statement by statement
\* get_logger up to logger.handlers.clear(): the level is set and the list
\* emptied; the propagate flag is still the old one.  One thread runs
\* get_logger at a time (pc "binding": between the clear and the first
\* addHandler), other threads go on logging through the facade.
GetLoggerClear(m, name, level) ==
    /\ m \in 1..Len(mgrs)
    /\ \A k \in 1..Len(mgrs) : mgrs[k].pc = "idle"
    /\ LET p == mgrs[m].proc
           old == registry[p][name]
       IN  registry' = [registry EXCEPT ![p][name] =
                          [old EXCEPT !.exists = TRUE,
                                      !.level = FacadeLevel(level),
                                      !.handlers = ClearHandlers(old.handlers)]]
    /\ mgrs' = [mgrs EXCEPT ![m].pc = "binding"]
    /\ UNCHANGED <<config, broken, disk, singleton, calls, scope, queues, listeners, sinks, emitted, arrivals,
                   dropped, noopStops, raised, stderr>>

\* the addHandler calls of get_logger, on the list as it is now
AttachHandlers(m, hs) ==
    IF BindsToQueue(mgrs[m])
    THEN AddHandler(hs, QueueHandlerOn(m, mgrs[m].log_queue))
    ELSE AddHandlers(hs, mgrs[m].handlers)

\* the rest of get_logger: the handlers are added and propagate is set
GetLoggerAttach(m, name) ==
    /\ m \in 1..Len(mgrs)
    /\ mgrs[m].pc = "binding"
    /\ LET p == mgrs[m].proc
           f == registry[p][name]
       IN  /\ f.exists /\ f.handlers = <<>>
           /\ registry' = [registry EXCEPT ![p][name] =
                             [f EXCEPT !.handlers = AttachHandlers(m, f.handlers),
                                       !.propagate = FacadePropagate,
                                       !.boundBy = m]]
    /\ mgrs' = [mgrs EXCEPT ![m].pc = "idle"]
    /\ UNCHANGED <<config, broken, disk, singleton, calls, scope, queues, listeners, sinks, emitted, arrivals,
                   dropped, noopStops, raised, stderr>>

InitRebind ==
    /\ config = TestConfig
    /\ broken = {}
    /\ Fresh

NextRebind ==
    \/ \E p \in Procs, use_mp \in BOOLEAN : ConstructLogger(p, use_mp, None, UnboundedSize)
    \/ \E p \in Procs, use_mp \in BOOLEAN : ConstructUnified(p, use_mp, None, UnboundedSize)
    \/ \E m \in 1..Len(mgrs), name \in Names, level \in ArgLevels : GetLoggerClear(m, name, level)
    \/ \E m \in 1..Len(mgrs), name \in Names : GetLoggerAttach(m, name)
    \/ \E p \in Procs, name \in Names, level \in EmitLevels : Emit(p, name, level)
    \/ \E l \in 1..Len(listeners) : ListenerStep(l)

SpecRebind == InitRebind /\ [][NextRebind]_vars

\* C34: a log call made through a facade that has been bound before, while
\* another thread rebinds it with get_logger, is handled by a handler of the
\* facade: a line is written to a sink or an item is put on a queue (or the
\* handler reports its own failure).
C34_RebindingLosesNoRecord ==
    [][\A p \in Procs : \A name \in Names : \A level \in EmitLevels :
          ( /\ Emit(p, name, level)
            /\ registry[p][name].boundBy # None
            /\ level >= registry[p][name].level ) =>
             \/ sinks' # sinks
             \/ arrivals' # arrivals
             \/ dropped' # dropped
             \/ stderr' # stderr]_vars

\* ------------------------------------- two threads inside stop() at once
\* One thread calls stop() on an owner (Stop, then the join below) while a
\* second thread leaves a with block on the same instance, whose __exit__
\* runs stop() statement by statement.  Queues are unbounded here.

\* the QueueListener object a stop() call of manager m is running on
ListenerOf(m) == CHOOSE l \in 1..Len(listeners) : listeners[l].queue = mgrs[m].log_queue

\* the first thread's stop() after the join: QueueListener.stop holds the
\* thread object it joins, then self.listener = None
RacingJoin(m) ==
    /\ m \in 1..Len(mgrs)
    /\ mgrs[m].pc = "joining"
    /\ JoinReturns(ListenerOf(m))
    /\ mgrs' = [mgrs EXCEPT ![m] = AfterJoin(@)]
    /\ UNCHANGED <<config, broken, disk, singleton, calls, scope, queues, listeners, registry, sinks, emitted,
                   arrivals, dropped, noopStops, raised, stderr>>

\* __exit__ -> stop(): the guard "self.listener and <ownership token>"
ExitGuard(m) ==
    /\ m \in 1..Len(mgrs)
    /\ scope[m].st = "in"
    /\ HasStop(mgrs[m])
    /\ IF StopTarget(mgrs[m]) = None
       THEN /\ noopStops' = noopStops \cup {m}
            /\ scope' = [scope EXCEPT ![m] = Leave(@, ExitReturn(mgrs[m]))]
       ELSE /\ scope' = [scope EXCEPT ![m].st = "checked"]
            /\ UNCHANGED noopStops
    /\ UNCHANGED <<config, broken, disk, singleton, calls, mgrs, queues, listeners, registry, sinks, emitted,
                   arrivals, dropped, raised, stderr>>

\* the with statement when stop() raised inside __exit__
LeaveRaising(error) == [st |-> "left", exc |-> FALSE, result |-> error]

\* self.listener.stop() after the guard: the attribute is read again (None
\* has no stop), then QueueListener.stop enqueues the sentinel
ExitEnqueue(m) ==
    /\ m \in 1..Len(mgrs)
    /\ scope[m].st = "checked"
    /\ IF mgrs[m].listener = None
       THEN /\ raised' = raised \cup {[op |-> "__exit__", error |-> "AttributeError",
                                       done |-> {"guard"}]}
            /\ scope' = [scope EXCEPT ![m] = LeaveRaising("AttributeError")]
            /\ UNCHANGED <<queues, arrivals>>
       ELSE /\ queues' = Put(World, mgrs[m].log_queue, Sentinel).queues
            /\ arrivals' = Put(World, mgrs[m].log_queue, Sentinel).arrivals
            /\ scope' = [scope EXCEPT ![m].st = "exiting"]
            /\ UNCHANGED raised
    /\ UNCHANGED <<config, broken, disk, singleton, calls, mgrs, listeners, registry, sinks, emitted, dropped,
                   noopStops, stderr>>

\* self._thread.join(); self._thread = None; self.listener = None.  late:
\* self._thread is read after the other call has set it to None (None has
\* no join).
ExitJoin(m, late) ==
    /\ m \in 1..Len(mgrs)
    /\ scope[m].st = "exiting"
    /\ JoinReturns(ListenerOf(m))
    /\ IF late /\ mgrs[m].stopped
       THEN /\ raised' = raised \cup {[op |-> "__exit__", error |-> "AttributeError",
                                       done |-> {"guard", "enqueue_sentinel"}]}
            /\ scope' = [scope EXCEPT ![m] = LeaveRaising("AttributeError")]
            /\ UNCHANGED mgrs
       ELSE /\ mgrs' = [mgrs EXCEPT ![m].listener = None, ![m].stopped = TRUE]
            /\ scope' = [scope EXCEPT ![m] = Leave(@, ExitReturn(mgrs[m]))]
            /\ UNCHANGED raised
    /\ UNCHANGED <<config, broken, disk, singleton, calls, queues, listeners, registry, sinks, emitted, arrivals,
                   dropped, noopStops, stderr>>

InitStopRace ==
    /\ config = TestConfig
    /\ broken = {}
    /\ Fresh

NextStopRace ==
    \/ ConstructLogger(1, TRUE, None, UnboundedSize)
    \/ ConstructUnified(1, TRUE, None, UnboundedSize)
    \/ ConstructMulti(1, UnboundedSize)
    \/ \E m \in 1..Len(mgrs), name \in Names, level \in ArgLevels : GetLogger(m, name, level)
    \/ \E name \in Names, level \in EmitLevels : Emit(1, name, level)
    \/ \E l \in 1..Len(listeners) : ListenerStep(l)
    \/ \E m \in 1..Len(mgrs) : StopCall(m)
    \/ \E m \in 1..Len(mgrs) : RacingJoin(m)
    \/ \E m \in 1..Len(mgrs) : WithEnter(m)
    \/ \E m \in 1..Len(mgrs) : ExitGuard(m)
    \/ \E m \in 1..Len(mgrs) : ExitEnqueue(m)
    \/ \E m \in 1..Len(mgrs), late \in BOOLEAN : ExitJoin(m, late)

SpecStopRace == InitStopRace /\ [][NextStopRace]_vars

\* C35: with two stop() calls running at once on one owner, at most one
\* sentinel is ever appended to its queue and neither call raises.
C35_ConcurrentStopOneSentinel ==
    /\ \A q \in QueueIds : Cardinality(SentinelsIn(arrivals, q)) <= 1
    /\ \A r \in raised : r.op # "__exit__"
    /\ \A m \in MgrIds : ~mgrs[m].stopRaised

\* -------------------------------------------------------- LoggerSingleton
\* the config_path argument: None (the default) or the path of the file
ConfigPaths == {"none", "path"}

\* the processes started by the main process
Workers == Procs \ {1}

StartMethods == {"fork", "spawn"}

\* __init__: "if self._initialized: return".  The attribute is read through
\* the instance: the instance's own once __init__ has run to its end, the
\* class's (False) before.
SkipsInitWhenInstance(s) == s.instance # None

SkipsInit(s) == s.initialized

\* the exception __init__ ends with, "ok" when it runs to its end
SingletonInitError(config_path) ==
    IF config_path = "none" THEN "ValueError" ELSE LoadConfig(config)

\* the object __new__ made, before __init__ has run to its end
BareInstance(p) ==
    [NewMgr("LoggerSingleton", p, FALSE, None, None, None, <<>>, FALSE, "")
        EXCEPT !.pc = "uninitialized"]

\* LoggerSingleton(config_path, use_multiprocessing, queue_size): __new__
\* returns the class's instance and makes it first if there is none; then
\* __init__ runs on it.
SingletonCall(p, config_path, use_mp, queue_size) ==
    /\ singleton[p].start # "none"
    /\ Len(calls) < MaxCalls
    /\ singleton[p].instance = None => Len(mgrs) < MaxMgrs
    /\ LET s == singleton[p]
           inst == IF s.instance = None THEN Len(mgrs) + 1 ELSE s.instance
           err == SingletonInitError(config_path)
           handlers == SetupHandlers(inst, "LoggerSingleton", "")
           created == ~SkipsInit(s) /\ err = "ok" /\ use_mp
           q == IF use_mp THEN Len(queues) + 1 ELSE None
           l == IF use_mp THEN Len(listeners) + 1 ELSE None
           obj == IF SkipsInit(s) /\ inst <= Len(mgrs) THEN mgrs[inst]
                  ELSE IF SkipsInit(s) \/ err # "ok" THEN BareInstance(p)
                  ELSE NewMgr("LoggerSingleton", p, use_mp, None, q, l, handlers, FALSE, "")
       IN  /\ mgrs' = IF inst > Len(mgrs) THEN Append(mgrs, obj) ELSE [mgrs EXCEPT ![inst] = obj]
           /\ queues' = IF created THEN Append(queues, MakeQueue(queue_size, inst)) ELSE queues
           /\ arrivals' = IF created THEN Append(arrivals, <<>>) ELSE arrivals
           /\ listeners' = IF created THEN Append(listeners, MakeListener(q, handlers))
                           ELSE listeners
           /\ singleton' = [singleton EXCEPT
                              ![p].instance = inst,
                              ![p].initialized = IF ~SkipsInit(s) /\ err = "ok" THEN TRUE
                                                 ELSE s.initialized]
           /\ calls' = Append(calls,
                          [proc |-> p, config_path |-> config_path,
                           use_multiprocessing |-> use_mp,
                           result |-> IF SkipsInit(s) \/ err = "ok" THEN inst ELSE None,
                           error |-> IF SkipsInit(s) THEN "ok" ELSE err,
                           skipped |-> SkipsInit(s)])
           /\ raised' = IF ~SkipsInit(s) /\ err # "ok"
                        THEN raised \cup {[op |-> "LoggerSingleton", error |-> err, done |-> {}]}
                        ELSE raised
    /\ UNCHANGED <<config, broken, disk, scope, registry, sinks, emitted, dropped, noopStops,
                   stderr>>

\* LoggerSingleton.reset()
SingletonReset(p) ==
    /\ singleton[p].start # "none"
    /\ singleton' = [singleton EXCEPT ![p].instance = None, ![p].initialized = FALSE]
    /\ UNCHANGED <<config, broken, disk, calls, scope, mgrs, queues, listeners, registry, sinks,
                   emitted, arrivals, dropped, noopStops, raised, stderr>>

\* The class attributes a started process finds.  A spawned process imports
\* the module anew; a forked process has a copy of its parent's memory.
SpawnedClassStateShared(parent) == [parent EXCEPT !.start = "spawn"]

SpawnedClassState(parent) == ClassState("spawn")

ForkedClassState(parent, copy) ==
    [start |-> "fork", instance |-> copy, initialized |-> parent.initialized,
     inherited |-> parent.initialized]

\* the copy of a handler list in a forked process
CopyHandlers(hs, from, to) ==
    [i \in 1..Len(hs) |-> IF hs[i].mgr = from THEN [hs[i] EXCEPT !.mgr = to] ELSE hs[i]]

\* the copy of a facade in a forked process
CopyFacade(f, from, to) ==
    [f EXCEPT !.boundBy = IF @ = from /\ from # None THEN to ELSE @,
              !.handlers = CopyHandlers(@, from, to)]

\* multiprocessing.Process(target=worker).start() in the main process.  A
\* forked child holds copies of the parent's instance (same queue: the pipe
\* is shared), of its listener object (the thread does not run in the
\* child) and of the facades.
StartWorker(p, method) ==
    /\ p \in Workers
    /\ singleton[p].start = "none"
    /\ LET parent == singleton[1]
           copy == IF parent.instance = None THEN None ELSE Len(mgrs) + 1
       IN  IF method = "spawn"
           THEN /\ singleton' = [singleton EXCEPT ![p] = SpawnedClassState(parent)]
                /\ UNCHANGED <<mgrs, listeners, registry>>
           ELSE /\ copy # None => Len(mgrs) < MaxMgrs
                /\ singleton' = [singleton EXCEPT ![p] = ForkedClassState(parent, copy)]
                /\ registry' = [registry EXCEPT ![p] =
                                  [n \in LoggerNames |->
                                      CopyFacade(registry[1][n], parent.instance, copy)]]
                /\ IF copy = None
                   THEN UNCHANGED <<mgrs, listeners>>
                   ELSE LET obj == mgrs[parent.instance]
                        IN  /\ mgrs' = Append(mgrs,
                                         [obj EXCEPT !.proc = p,
                                                     !.handlers = CopyHandlers(@, parent.instance, copy),
                                                     !.listener = IF @ = None THEN None
                                                                  ELSE Len(listeners) + 1])
                            /\ listeners' = IF obj.listener = None THEN listeners
                                            ELSE Append(listeners,
                                                        [listeners[obj.listener] EXCEPT !.alive = FALSE])
    /\ UNCHANGED <<config, broken, disk, calls, scope, queues, sinks, emitted, arrivals, dropped,
                   noopStops, raised, stderr>>

\* the configuration file is there or is missing
InitSingleton ==
    /\ config \in {TestConfig, ConfigFile(FALSE, ".yaml", [propagate |-> FALSE])}
    /\ broken = {}
    /\ Fresh

NextSingleton ==
    \/ \E p \in Procs, path \in ConfigPaths, use_mp \in BOOLEAN :
          SingletonCall(p, path, use_mp, UnboundedSize)
    \/ \E p \in Procs : SingletonReset(p)
    \/ \E p \in Workers, method \in StartMethods : StartWorker(p, method)
    \/ \E m \in 1..Len(mgrs), name \in Names, level \in ArgLevels : GetLogger(m, name, level)
    \/ \E p \in Procs, name \in Names, level \in EmitLevels : Emit(p, name, level)
    \/ \E l \in 1..Len(listeners) : ListenerStep(l)

SpecSingleton == InitSingleton /\ [][NextSingleton]_vars

\* C36: a LoggerSingleton(...) call in a process whose instance is
\* initialized returns that instance and changes nothing else (arguments
\* ignored, configuration not loaded, no queue or listener made); a call
\* after a failed first initialization runs __init__ again on the same
\* object, and after it succeeds the instance is initialized; a call when
\* the class holds no instance (first call, or after reset()) makes an
\* object no earlier call returned and initializes it.
C36_SingleInstancePerProcess ==
    [][\A p \in Procs : \A path \in ConfigPaths : \A use_mp \in BOOLEAN :
          SingletonCall(p, path, use_mp, UnboundedSize) =>
             LET s == singleton[p]
                 c == calls'[Len(calls')]
             IN  /\ s.initialized =>
                       /\ c.skipped /\ c.result = s.instance
                       /\ UNCHANGED <<singleton, mgrs, queues, listeners, arrivals, registry,
                                      raised, sinks>>
                 /\ (s.instance # None /\ ~s.initialized) =>
                       /\ ~c.skipped
                       /\ singleton'[p].instance = s.instance
                       /\ c.error = SingletonInitError(path)
                       /\ c.error = "ok" => /\ c.result = s.instance
                                            /\ singleton'[p].initialized
                                            /\ mgrs'[s.instance].pc = "idle"
                                            /\ mgrs'[s.instance].use_multiprocessing = use_mp
                       /\ c.error # "ok" => c.result = None /\ ~singleton'[p].initialized
                 /\ s.instance = None =>
                       /\ ~c.skipped
                       /\ singleton'[p].instance = Len(mgrs) + 1
                       /\ \A i \in 1..Len(calls) : calls[i].result # Len(mgrs) + 1
                       /\ c.error = "ok" => /\ c.result = Len(mgrs) + 1
                                            /\ singleton'[p].initialized
                                            /\ use_mp => Len(queues') = Len(queues) + 1]_vars

\* in the main process the first call failed (no config_path), the second
\* built the instance with a queue and a listener, and the third, with
\* other arguments, returned the same object while nothing was created
C36_Witness ==
    /\ Len(calls) = 3
    /\ \A i \in 1..3 : calls[i].proc = 1
    /\ calls[1].error = "ValueError" /\ calls[1].result = None
    /\ calls[2].error = "ok" /\ calls[2].use_multiprocessing /\ calls[2].result = 1
    /\ calls[3].skipped /\ ~calls[3].use_multiprocessing /\ calls[3].config_path = "none"
    /\ calls[3].result = 1
    /\ Len(queues) = 1 /\ Len(listeners) = 1 /\ Len(mgrs) = 1

\* the first LoggerSingleton(...) call of process p is call i, made with
\* use_multiprocessing=True, and it returned an instance
ConstructsAggregator(p, i) ==
    /\ i \in 1..Len(calls)
    /\ calls[i].proc = p
    /\ \A j \in 1..(i - 1) : calls[j].proc # p
    /\ calls[i].use_multiprocessing
    /\ calls[i].result # None

\* instance k belongs to process p alone: it lives there, its queue was
\* created by its own __init__, its listener runs on that queue, and no
\* record logged through its facades is found in a queue made in the main
\* process
OwnAggregator(p, k) ==
    /\ mgrs[k].proc = p
    /\ mgrs[k].log_queue # None
    /\ queues[mgrs[k].log_queue].creator = k
    /\ mgrs[k].listener # None
    /\ listeners[mgrs[k].listener].queue = mgrs[k].log_queue
    /\ listeners[mgrs[k].listener].alive
    /\ \A q \in QueueIds : mgrs[queues[q].creator].proc = 1 =>
          \A n \in 1..Len(arrivals[q]) : arrivals[q][n].mgr # k

====
